---- MODULE Spec2Model ----
(***************************************************************************)
(* A model of the StreamBox streaming engine: the torrent client wrapper,  *)
(* the session Manager (StartStream, probeMedia, GetSession, GetStatus,    *)
(* StopSession) and the HTTP stream server (ServeStream, serveTranscoded). *)
(* Every handler is split into steps at the points where it touches state  *)
(* shared with other goroutines; a region run under Manager.mu is one step. *)
(***************************************************************************)
EXTENDS Integers, Sequences, FiniteSets, TLC

\* ------------------------------------------------------------------ bounds
\* Number of StartStream calls, StopSession calls, GetStatus calls and stream
\* requests a behaviour may contain, and the last tick of the wall clock.
MaxStarts == 2
MaxStops == 2
MaxStatus == 2
MaxReqs == 2
MaxClock == 2
\* Number of files of a torrent handed to findLargestVideoFile.
MaxFiles == 3
MaxProviders == 3

Starters == 1..MaxStarts
Stoppers == 1..MaxStops
StatusCallers == 1..MaxStatus
Requests == 1..MaxReqs

\* ------------------------------------------------------- program constants
MiB == 1024 * 1024
StatusReadahead == 16 * MiB
ProbeReadahead == 10 * MiB
FewPeersReadahead == 64 * MiB
EarlyReadahead == 32 * MiB
FewPeers == 3
EarlyPercent == 10
SeekBackoff == 5 * MiB

\* --------------------------------------------------------- the environment
\* The swarm: what each magnet resolves to.  A magnet is identified with its
\* infohash; BadMagnet is a URI the library cannot parse.  Paths are sequences
\* of characters so that filepath.Ext and strings.ToLower are computed.
PieceLength == 4 * MiB
BadMagnet == 0
MkvMagnet == 1
Mp4Magnet == 2
TxtMagnet == 3
Magnets == {BadMagnet, MkvMagnet, Mp4Magnet, TxtMagnet}
\* Two more swarms: a video file smaller than the seek back-off, and a video
\* file of length 0.
SmallMagnet == 4
EmptyMagnet == 5

Catalogue(ih) ==
  CASE ih = MkvMagnet ->
         << [path |-> <<"n", ".", "t", "x", "t">>, length |-> 3 * PieceLength],
            [path |-> <<"a", ".", "M", "K", "V">>, length |-> 2 * PieceLength] >>
    [] ih = Mp4Magnet ->
         << [path |-> <<"b", ".", "m", "p", "4">>, length |-> 2 * PieceLength] >>
    [] ih = SmallMagnet ->
         << [path |-> <<"c", ".", "a", "v", "i">>, length |-> PieceLength] >>
    [] ih = EmptyMagnet ->
         << [path |-> <<"e", ".", "m", "k", "v">>, length |-> 0] >>
    [] OTHER ->
         << [path |-> <<"r", ".", "t", "x", "t">>, length |-> PieceLength] >>

\* ------------------------------------------------------------ pure helpers
LowerChar(c) ==
  CASE c = "M" -> "m" [] c = "K" -> "k" [] c = "V" -> "v"
    [] c = "P" -> "p" [] c = "T" -> "t" [] c = "X" -> "x"
    [] OTHER -> c

ToLower(s) == [i \in 1..Len(s) |-> LowerChar(s[i])]

\* filepath.Ext: the suffix beginning at the final dot of the final element
\* of the path, empty when that element has no dot.
Ext(path) ==
  LET seps == {i \in 1..Len(path) : path[i] = "/"}
      dots == {i \in 1..Len(path) : path[i] = "." /\ \A j \in seps : j < i}
  IN IF dots = {} THEN <<>>
     ELSE LET d == CHOOSE i \in dots : \A j \in dots : j <= i
          IN SubSeq(path, d, Len(path))

videoExts ==
  { <<".", "m", "p", "4">>, <<".", "m", "k", "v">>, <<".", "a", "v", "i">>,
    <<".", "w", "e", "b", "m">>, <<".", "m", "o", "v">>, <<".", "w", "m", "v">>,
    <<".", "f", "l", "v">>, <<".", "m", "4", "v">> }

\* The loop of findLargestVideoFile over files[1..n]: the index of the file it
\* holds in `largest` after n iterations, 0 for nil.
RECURSIVE LargestUpTo(_, _)
LargestUpTo(files, n) ==
  IF n = 0 THEN 0
  ELSE LET prev == LargestUpTo(files, n - 1)
       IN IF ToLower(Ext(files[n].path)) \notin videoExts THEN prev
          ELSE IF prev = 0 \/ files[n].length > files[prev].length THEN n
          ELSE prev

\* A faulty variant of findLargestVideoFile: the largest file whatever its
\* extension.
findLargestVideoFile_AnyExt(files) ==
  IF files = <<>> THEN 0
  ELSE CHOOSE i \in 1..Len(files) :
         /\ \A j \in 1..Len(files) : files[j].length <= files[i].length
         /\ \A j \in 1..(i - 1) : files[j].length < files[i].length

findLargestVideoFile(files) == LargestUpTo(files, Len(files))

\* A faulty variant of needsTranscoding: nothing is remuxed.
needsTranscoding_Never(path) == FALSE

needsTranscoding(path) ==
  LET ext == ToLower(Ext(path))
  IN ext # <<".", "m", "p", "4">> /\ ext # <<".", "w", "e", "b", "m">>

detectContentType(path) ==
  LET ext == ToLower(Ext(path))
  IN CASE ext \in {<<".", "m", "p", "4">>, <<".", "m", "4", "v">>} -> "video/mp4"
       [] ext = <<".", "w", "e", "b", "m">> -> "video/webm"
       [] ext = <<".", "m", "k", "v">> -> "video/x-matroska"
       [] ext = <<".", "a", "v", "i">> -> "video/x-msvideo"
       [] OTHER -> "application/octet-stream"

\* ------------------------------------------------------------------- state
VARIABLES
  clTorrents,   \* torrent library: infohash -> handle of the live torrent, 0 if none
  torrents,     \* torrent library: the Torrent objects, by handle
  readers,      \* torrent library: the Reader objects, by name
  sess,         \* heap of Session objects (index = pointer)
  sessions,     \* Manager.sessions: session id -> pointer, 0 if absent
  start,        \* StartStream calls
  stop,         \* StopSession calls
  probe,        \* probeMedia goroutines, one per Session object
  status,       \* GetStatus calls
  req,          \* stream requests (ServeStream handlers)
  cmd,          \* the remuxer process and its copy goroutines, per request
  clock,        \* wall clock (time.Now)
  process,      \* the server process: "running" until main returns or exits
  call,         \* the last call of a function that is checked by itself
  mu            \* Manager.mu: its writer and its readers

vars == <<clTorrents, torrents, readers, sess, sessions, start, stop, probe,
          status, req, cmd, clock, process, call, mu>>

Nil == 0
InfoHashes == (Magnets \cup {SmallMagnet, EmptyMagnet}) \ {BadMagnet}
\* Session ids: those uuid.New hands out, and one that is never created.
SessionIDs == 1..(MaxStarts + 1)

\* Objects are named after the call that creates them: StartStream call p
\* creates Torrent p (when the infohash is new), Session p, its status reader
\* and its probe reader; request r creates its own reader.
Handles == Starters
StatusReaderOf(p) == p
ProbeReaderOf(p) == MaxStarts + p
ReaderIds == 1..(2 * MaxStarts + MaxReqs)

NoTorrent == [ih |-> Nil, gotInfo |-> FALSE, closed |-> FALSE, drops |-> 0, have |-> {}]
NoReader ==
  [torrent |-> Nil, length |-> 0, pos |-> 0, readahead |-> 0, responsive |-> FALSE,
   closes |-> 0, users |-> {}]
NoSession ==
  [ID |-> Nil, MagnetURI |-> BadMagnet, InfoHash |-> Nil, FilePath |-> <<>>,
   FileSize |-> 0, ContentType |-> "", NeedsTranscode |-> FALSE, Status |-> "",
   Duration |-> 0, AudioTracks |-> <<>>, torrent |-> Nil, file |-> 0, reader |-> Nil,
   lastBytes |-> 0, lastSpeedCheck |-> 0, lastSpeed |-> 0]

\* sync.RWMutex: w is the goroutine holding the write lock (<<>> for none),
\* r the goroutines holding read locks.
Unlocked == [w |-> <<>>, r |-> {}]

Init ==
  /\ clTorrents = [ih \in InfoHashes |-> Nil]
  /\ torrents = [h \in Handles |-> NoTorrent]
  /\ readers = [rd \in ReaderIds |-> NoReader]
  /\ sess = [s \in Starters |-> NoSession]
  /\ sessions = [id \in SessionIDs |-> Nil]
  /\ start = [p \in Starters |->
                [pc |-> "idle", magnet |-> BadMagnet, t |-> Nil, ptr |-> Nil,
                 ret |-> Nil, err |-> "", adds |-> 0, drops |-> 0]]
  /\ stop = [p \in Stoppers |->
               [pc |-> "idle", id |-> Nil, ptr |-> Nil, result |-> "",
                closes |-> 0, drops |-> 0]]
  /\ probe = [b \in Starters |-> [pc |-> "none", reader |-> Nil]]
  /\ status = [p \in StatusCallers |->
                 [pc |-> "idle", id |-> Nil, ptr |-> Nil, bytesCompleted |-> 0,
                  peers |-> 0, now |-> 0, speed |-> 0, result |-> ""]]
  /\ req = [r \in Requests |->
              [pc |-> "idle", id |-> Nil, ptr |-> Nil, t |-> 0, audio |-> -1,
               reader |-> Nil, offset |-> 0, last |-> 0, args |-> <<>>,
               code |-> 0, json |-> "", got |-> 0, body |-> 0, sent |-> <<>>,
               client |-> "connected"]]
  /\ cmd = [r \in Requests |->
              [proc |-> "none", exit |-> "", signalled |-> FALSE, waits |-> 0,
               stdin |-> "none", stdout |-> "none", inPipe |-> 0, outPipe |-> 0,
               inClosed |-> FALSE, outClosed |-> FALSE]]
  /\ clock = 1
  /\ process = "running"
  /\ call = [fn |-> "", arg |-> <<>>, ret |-> 0]
  /\ mu = Unlocked

\* Calls of one kind are numbered in the order of their invocation: call p
\* begins only when call p - 1 has begun.
Invoked(calls, p) == IF p = 1 THEN TRUE ELSE calls[p - 1].pc # "idle"

\* ------------------------------------------------- the torrent library
\* Client.AddMagnet: the Torrent already registered under the infohash, or a
\* new one.  Torrent.Drop removes it from the client and closes it; readers of
\* a closed torrent fail their reads.
NewTorrent(ih) ==
  [ih |-> ih, gotInfo |-> FALSE, closed |-> FALSE, drops |-> 0, have |-> {}]

AddedHandle(p, m) == IF clTorrents[m] # Nil THEN clTorrents[m] ELSE p

LibAddMagnet(p, m) ==
  IF clTorrents[m] # Nil
    THEN UNCHANGED <<clTorrents, torrents>>
    ELSE /\ torrents' = [torrents EXCEPT ![p] = NewTorrent(m)]
         /\ clTorrents' = [clTorrents EXCEPT ![m] = p]

Dropped(ts, h) == [ts EXCEPT ![h].closed = TRUE, ![h].drops = @ + 1]

LibDrop(h) ==
  /\ torrents' = Dropped(torrents, h)
  /\ clTorrents' = [ih \in InfoHashes |->
                      IF clTorrents[ih] = h THEN Nil ELSE clTorrents[ih]]

\* The chosen file of a torrent and its pieces, numbered from 0.
FileOf(h) == Catalogue(torrents[h].ih)[findLargestVideoFile(Catalogue(torrents[h].ih))]
Pieces(h) ==
  IF findLargestVideoFile(Catalogue(torrents[h].ih)) = 0 THEN {}
  ELSE 0..((FileOf(h).length \div PieceLength) - 1)
BytesCompleted(h) == Cardinality(torrents[h].have) * PieceLength

\* File.NewReader followed by SetReadahead and SetResponsive.
NewReaderObj(h, readahead) ==
  [torrent |-> h, length |-> FileOf(h).length, pos |-> 0, readahead |-> readahead,
   responsive |-> TRUE, closes |-> 0, users |-> {}]

ReaderClosed(rd) == readers[rd].closes > 0

\* A peer delivers the info dictionary of a live torrent.
PeerDeliversInfo(h) ==
  /\ torrents[h].ih # Nil
  /\ ~torrents[h].closed
  /\ ~torrents[h].gotInfo
  /\ torrents' = [torrents EXCEPT ![h].gotInfo = TRUE]
  /\ UNCHANGED <<clTorrents, readers, sess, sessions, start, stop, probe,
                 status, req, cmd, clock, process, call, mu>>

\* A peer delivers one piece of the chosen file of a live torrent.
PieceArrives(h, i) ==
  /\ torrents[h].ih # Nil
  /\ ~torrents[h].closed
  /\ torrents[h].gotInfo
  /\ i \in Pieces(h) \ torrents[h].have
  /\ torrents' = [torrents EXCEPT ![h].have = @ \cup {i}]
  /\ UNCHANGED <<clTorrents, readers, sess, sessions, start, stop, probe,
                 status, req, cmd, clock, process, call, mu>>

Tick ==
  /\ clock < MaxClock
  /\ clock' = clock + 1
  /\ UNCHANGED <<clTorrents, torrents, readers, sess, sessions, start, stop,
                 probe, status, req, cmd, process, call, mu>>

\* ------------------------------------------------- main
\* The end of the server process.  server.Run() blocks until the listener
\* fails; main then leaves through log.Fatal, which exits without running
\* deferred calls, and a signal ends the process the same way (deferred =
\* FALSE).  Only when main returns does the deferred TorrentClient.Close() run
\* (deferred = TRUE): the library closes every torrent of the client.  The
\* Manager is not touched and nothing is sent to the remuxer processes; they
\* are left with the pipes whose other ends the exiting process closes.
mainExits(deferred) ==
  /\ process = "running"
  /\ process' = "exited"
  /\ IF deferred
       THEN /\ torrents' = [h \in Handles |->
                              IF torrents[h].ih # Nil
                                THEN [torrents[h] EXCEPT !.closed = TRUE]
                                ELSE torrents[h]]
            /\ clTorrents' = [ih \in InfoHashes |-> Nil]
       ELSE UNCHANGED <<clTorrents, torrents>>
  /\ cmd' = [r \in Requests |->
               IF cmd[r].proc = "none" THEN cmd[r]
               ELSE [cmd[r] EXCEPT !.inClosed = TRUE, !.outClosed = TRUE]]
  /\ UNCHANGED <<readers, sess, sessions, start, stop, probe, status, req, clock, call, mu>>

\* ------------------------------------------------- Manager.mu
\* The goroutine g holds the registry lock, for writing or for reading.
Holds(g) == mu.w = g \/ g \in mu.r

\* sync.RWMutex: Lock waits until nobody holds the lock, RLock until no
\* writer holds it.
Lock(g) == mu = Unlocked /\ mu' = [mu EXCEPT !.w = g]
Unlock(g) == mu.w = g /\ mu' = [mu EXCEPT !.w = <<>>]
RLock(g) == mu.w = <<>> /\ g \notin mu.r /\ mu' = [mu EXCEPT !.r = @ \cup {g}]
RUnlock(g) == g \in mu.r /\ mu' = [mu EXCEPT !.r = @ \ {g}]

\* A step that only takes or releases the lock.
OnlyMu ==
  UNCHANGED <<clTorrents, torrents, readers, sess, sessions, start, stop, probe,
              status, req, cmd, clock, process, call>>

\* ------------------------------------------------- Manager.StartStream
\* TorrentClient.AddMagnet up to the wait for the info dictionary.
StartAddMagnet(p, m) ==
  /\ start[p].pc = "idle"
  /\ Invoked(start, p)
  /\ IF m = BadMagnet
       THEN /\ start' = [start EXCEPT ![p].pc = "done", ![p].magnet = m,
                                      ![p].err = "add magnet"]
            /\ UNCHANGED <<clTorrents, torrents>>
       ELSE /\ LibAddMagnet(p, m)
            /\ start' = [start EXCEPT ![p].pc = "waitInfo", ![p].magnet = m,
                                      ![p].t = AddedHandle(p, m), ![p].adds = @ + 1]
  /\ UNCHANGED <<readers, sess, sessions, stop, probe, status, req, cmd, clock, process, call, mu>>

\* A faulty variant of NewSession: the session is created with a duration.
NewSession_WithDuration(id, m, h, rd) ==
  LET files == Catalogue(torrents[h].ih)
      f == findLargestVideoFile(files)
  IN [ID |-> id, MagnetURI |-> m, InfoHash |-> torrents[h].ih,
      FilePath |-> files[f].path, FileSize |-> files[f].length,
      ContentType |-> detectContentType(files[f].path),
      NeedsTranscode |-> needsTranscoding(files[f].path),
      Status |-> "ready", Duration |-> 1, AudioTracks |-> <<>>,
      torrent |-> h, file |-> f, reader |-> rd,
      lastBytes |-> 0, lastSpeedCheck |-> 0, lastSpeed |-> 0]

NewSession(id, m, h, rd) ==
  LET files == Catalogue(torrents[h].ih)
      f == findLargestVideoFile(files)
  IN [ID |-> id, MagnetURI |-> m, InfoHash |-> torrents[h].ih,
      FilePath |-> files[f].path, FileSize |-> files[f].length,
      ContentType |-> detectContentType(files[f].path),
      NeedsTranscode |-> needsTranscoding(files[f].path),
      Status |-> "ready", Duration |-> 0, AudioTracks |-> <<>>,
      torrent |-> h, file |-> f, reader |-> rd,
      lastBytes |-> 0, lastSpeedCheck |-> 0, lastSpeed |-> 0]

\* A faulty variant of StartSelectFile: the no-video path returns its error
\* without dropping the torrent.
StartSelectFile_NoDrop(p) ==
  /\ start[p].pc = "waitInfo"
  /\ torrents[start[p].t].gotInfo
  /\ IF findLargestVideoFile(Catalogue(torrents[start[p].t].ih)) = 0
       THEN /\ start' = [start EXCEPT ![p].pc = "done",
                                      ![p].err = "no video file found in torrent"]
            /\ UNCHANGED <<clTorrents, torrents, readers, sess>>
       ELSE /\ readers' = [readers EXCEPT ![StatusReaderOf(p)] =
                                            NewReaderObj(start[p].t, StatusReadahead)]
            /\ sess' = [sess EXCEPT ![p] = NewSession(p, start[p].magnet, start[p].t,
                                                      StatusReaderOf(p))]
            /\ start' = [start EXCEPT ![p].pc = "insert", ![p].ptr = p]
            /\ UNCHANGED <<clTorrents, torrents>>
  /\ UNCHANGED <<sessions, stop, probe, status, req, cmd, clock, process, call, mu>>

\* <-t.GotInfo() returns; the file is selected; either the torrent is dropped
\* (no video file) or the status reader is opened and the Session built.
StartSelectFile(p) ==
  /\ start[p].pc = "waitInfo"
  /\ torrents[start[p].t].gotInfo
  /\ IF findLargestVideoFile(Catalogue(torrents[start[p].t].ih)) = 0
       THEN /\ LibDrop(start[p].t)
            /\ start' = [start EXCEPT ![p].pc = "done", ![p].drops = @ + 1,
                                      ![p].err = "no video file found in torrent"]
            /\ UNCHANGED <<readers, sess>>
       ELSE /\ readers' = [readers EXCEPT ![StatusReaderOf(p)] =
                                            NewReaderObj(start[p].t, StatusReadahead)]
            /\ sess' = [sess EXCEPT ![p] = NewSession(p, start[p].magnet, start[p].t,
                                                      StatusReaderOf(p))]
            /\ start' = [start EXCEPT ![p].pc = "insert", ![p].ptr = p]
            /\ UNCHANGED <<clTorrents, torrents>>
  /\ UNCHANGED <<sessions, stop, probe, status, req, cmd, clock, process, call, mu>>

\* A faulty variant of InsertKey: every session is stored under one fixed key.
InsertKey_Fixed(s) == 1

\* The key the new session is stored under.
InsertKey(s) == sess[s].ID

\* m.sessions[sess.ID] = sess under m.mu, go m.probeMedia(sess), return.
StartInsert(p) ==
  /\ start[p].pc = "insert"
  /\ sessions' = [sessions EXCEPT ![InsertKey(start[p].ptr)] = start[p].ptr]
  /\ probe' = [probe EXCEPT ![start[p].ptr].pc = "start"]
  /\ start' = [start EXCEPT ![p].pc = "done", ![p].ret = sess[start[p].ptr].ID]
  /\ UNCHANGED <<clTorrents, torrents, readers, sess, stop, status, req, cmd, clock, process, call, mu>>

\* ------------------------------------------------- Manager.probeMedia
\* The throwaway reader is opened and ffprobe is started on it.
ProbeOpen(b) ==
  /\ probe[b].pc = "start"
  /\ readers' = [readers EXCEPT ![ProbeReaderOf(b)] =
                                  NewReaderObj(sess[b].torrent, ProbeReadahead)]
  /\ probe' = [probe EXCEPT ![b].pc = "running", ![b].reader = ProbeReaderOf(b)]
  /\ UNCHANGED <<clTorrents, torrents, sess, sessions, start, stop, status,
                 req, cmd, clock, process, call, mu>>

\* A faulty variant of ProbeFail: the failed probe takes the session out of
\* the registry.
ProbeFail_RemovesSession(b) ==
  /\ probe[b].pc = "running"
  /\ readers' = [readers EXCEPT ![probe[b].reader].closes = @ + 1]
  /\ probe' = [probe EXCEPT ![b].pc = "failed"]
  /\ sessions' = [sessions EXCEPT ![sess[b].ID] = Nil]
  /\ UNCHANGED <<clTorrents, torrents, sess, start, stop, status, req, cmd, clock, process, call, mu>>

\* cmd.Output or json.Unmarshal fails: logged, the deferred Close runs.
ProbeFail(b) ==
  /\ probe[b].pc = "running"
  /\ readers' = [readers EXCEPT ![probe[b].reader].closes = @ + 1]
  /\ probe' = [probe EXCEPT ![b].pc = "failed"]
  /\ UNCHANGED <<clTorrents, torrents, sess, sessions, start, stop, status,
                 req, cmd, clock, process, call, mu>>

\* A faulty variant of ProbeReport: the probed session is put back into the
\* registry.
ProbeReport_Reinserts(b, dur, tracks) ==
  /\ probe[b].pc = "running"
  /\ 0 \in torrents[sess[b].torrent].have
  /\ sess' = [sess EXCEPT ![b].Duration = IF dur > 0 THEN dur ELSE @,
                          ![b].AudioTracks = tracks]
  /\ sessions' = [sessions EXCEPT ![sess[b].ID] = b]
  /\ readers' = [readers EXCEPT ![probe[b].reader].closes = @ + 1]
  /\ probe' = [probe EXCEPT ![b].pc = "done"]
  /\ UNCHANGED <<clTorrents, torrents, start, stop, status, req,
                 cmd, clock, process, call, mu>>

\* ffprobe reported: dur is the parsed format.duration (0 when ParseFloat
\* failed), tracks the audio streams.  Duration and AudioTracks are written
\* under m.mu; the deferred Close runs.
ProbeReport(b, dur, tracks) ==
  /\ probe[b].pc = "running"
  /\ 0 \in torrents[sess[b].torrent].have
  /\ sess' = [sess EXCEPT ![b].Duration = IF dur > 0 THEN dur ELSE @,
                          ![b].AudioTracks = tracks]
  /\ readers' = [readers EXCEPT ![probe[b].reader].closes = @ + 1]
  /\ probe' = [probe EXCEPT ![b].pc = "done"]
  /\ UNCHANGED <<clTorrents, torrents, sessions, start, stop, status, req,
                 cmd, clock, process, call, mu>>

\* ------------------------------------------------- Manager.ListFiles
\* The torrent a ListFiles call adds when the infohash is new to the client.
ListHandle == MaxStarts

\* The FileInfo list of a torrent: index, path and size of every file.
FileInfos(ih) ==
  [i \in 1..Len(Catalogue(ih)) |->
     [index |-> i - 1, path |-> Catalogue(ih)[i].path, size |-> Catalogue(ih)[i].length]]

\* The magnet is added and the call waits for the info dictionary.
ListAddMagnet(m) ==
  /\ call.fn = ""
  /\ IF m = BadMagnet
       THEN /\ call' = [fn |-> "ListFiles", arg |-> m, ret |-> <<>>, pc |-> "done",
                        t |-> Nil, err |-> "add magnet"]
            /\ UNCHANGED <<clTorrents, torrents>>
       ELSE /\ LibAddMagnet(ListHandle, m)
            /\ call' = [fn |-> "ListFiles", arg |-> m, ret |-> <<>>, pc |-> "waitInfo",
                        t |-> AddedHandle(ListHandle, m), err |-> ""]
  /\ UNCHANGED <<readers, sess, sessions, start, stop, probe, status, req, cmd,
                 clock, process, mu>>

\* A faulty variant of ListReturn: the torrent is left in the client.
ListReturn_NoDrop(ok) ==
  /\ call.fn = "ListFiles"
  /\ call.pc = "waitInfo"
  /\ torrents[call.t].gotInfo
  /\ call' = [call EXCEPT !.pc = "done",
                          !.ret = IF ok THEN FileInfos(torrents[call.t].ih) ELSE <<>>,
                          !.err = IF ok THEN "" ELSE "list files"]
  /\ UNCHANGED <<clTorrents, torrents, readers, sess, sessions, start, stop, probe,
                 status, req, cmd, clock, process, mu>>

\* The info dictionary has arrived: the file list is built, the torrent is
\* dropped and the call returns the list, or an error.
ListReturn(ok) ==
  /\ call.fn = "ListFiles"
  /\ call.pc = "waitInfo"
  /\ torrents[call.t].gotInfo
  /\ LibDrop(call.t)
  /\ call' = [call EXCEPT !.pc = "done",
                          !.ret = IF ok THEN FileInfos(torrents[call.t].ih) ELSE <<>>,
                          !.err = IF ok THEN "" ELSE "list files"]
  /\ UNCHANGED <<readers, sess, sessions, start, stop, probe, status, req, cmd,
                 clock, process, mu>>

\* ------------------------------------------------- Manager.GetSession
GetSession(id) == sessions[id]

\* ------------------------------------------------- Manager.StopSession
\* A faulty variant of StopRemove: the entry is looked up but not deleted.
StopRemove_KeepsEntry(p, id) ==
  /\ stop[p].pc = "idle"
  /\ Invoked(stop, p)
  /\ stop' = [stop EXCEPT ![p].id = id, ![p].ptr = sessions[id],
                          ![p].pc = IF sessions[id] = Nil THEN "done" ELSE "close",
                          ![p].result = IF sessions[id] = Nil THEN "not found" ELSE ""]
  /\ UNCHANGED <<clTorrents, torrents, readers, sess, sessions, start, probe,
                 status, req, cmd, clock, process, call, mu>>

\* The region under m.mu: look the session up and delete it.
StopRemove(p, id) ==
  /\ stop[p].pc = "idle"
  /\ Invoked(stop, p)
  /\ IF sessions[id] = Nil
       THEN /\ stop' = [stop EXCEPT ![p].pc = "done", ![p].id = id,
                                    ![p].result = "not found"]
            /\ UNCHANGED sessions
       ELSE /\ sessions' = [sessions EXCEPT ![id] = Nil]
            /\ stop' = [stop EXCEPT ![p].pc = "close", ![p].id = id,
                                    ![p].ptr = sessions[id]]
  /\ UNCHANGED <<clTorrents, torrents, readers, sess, start, probe, status,
                 req, cmd, clock, process, call, mu>>

\* sess.reader.Close()
StopCloseReader(p) ==
  /\ stop[p].pc = "close"
  /\ IF sess[stop[p].ptr].reader # Nil
       THEN /\ readers' = [readers EXCEPT ![sess[stop[p].ptr].reader].closes = @ + 1]
            /\ stop' = [stop EXCEPT ![p].pc = "drop", ![p].closes = @ + 1]
       ELSE /\ stop' = [stop EXCEPT ![p].pc = "drop"]
            /\ UNCHANGED readers
  /\ UNCHANGED <<clTorrents, torrents, sess, sessions, start, probe, status,
                 req, cmd, clock, process, call, mu>>

\* sess.torrent.Drop(), return nil
StopDrop(p) ==
  /\ stop[p].pc = "drop"
  /\ LibDrop(sess[stop[p].ptr].torrent)
  /\ stop' = [stop EXCEPT ![p].pc = "done", ![p].drops = @ + 1, ![p].result = "ok"]
  /\ UNCHANGED <<readers, sess, sessions, start, probe, status, req, cmd, clock, process, call, mu>>

\* ------------------------------------------------- Manager.GetStatus
\* int64(x / y) for float64 operands: truncation toward zero.
TruncDiv(x, y) == IF x >= 0 THEN x \div y ELSE -((-x) \div y)

\* A faulty variant of Readahead: the read-ahead is left at its default.
Readahead_Fixed(peers, bytesCompleted, fileSize) == StatusReadahead

\* The read-ahead policy: downloadPct < 10 is bytesCompleted / FileSize * 100 < 10.
Readahead(peers, bytesCompleted, fileSize) ==
  IF peers < FewPeers THEN FewPeersReadahead
  ELSE IF bytesCompleted * 100 < EarlyPercent * fileSize THEN EarlyReadahead
  ELSE StatusReadahead

\* The lookup under m.mu.RLock.
StatusLookup(p, id) ==
  /\ status[p].pc = "idle"
  /\ Invoked(status, p)
  /\ status' = [status EXCEPT ![p].id = id, ![p].ptr = sessions[id],
                  ![p].pc = IF sessions[id] = Nil THEN "done" ELSE "sample",
                  ![p].result = IF sessions[id] = Nil THEN "not found" ELSE ""]
  /\ UNCHANGED <<clTorrents, torrents, readers, sess, sessions, start, stop,
                 probe, req, cmd, clock, process, call, mu>>

\* t.Stats(), file.BytesCompleted(), sess.reader.SetReadahead, time.Now().
StatusSample(p, peers) ==
  /\ status[p].pc = "sample"
  /\ LET s == sess[status[p].ptr]
         done == BytesCompleted(s.torrent)
     IN /\ readers' = [readers EXCEPT ![s.reader].readahead =
                                        Readahead(peers, done, s.FileSize)]
        /\ status' = [status EXCEPT ![p].pc = "speed", ![p].peers = peers,
                                    ![p].bytesCompleted = done, ![p].now = clock]
  /\ UNCHANGED <<clTorrents, torrents, sess, sessions, start, stop, probe,
                 req, cmd, clock, process, call, mu>>

\* Reads lastSpeedCheck and lastBytes, computes the speed, stores lastSpeed.
StatusSpeed(p) ==
  /\ status[p].pc = "speed"
  /\ LET s == sess[status[p].ptr]
         elapsed == status[p].now - s.lastSpeedCheck
         raw == TruncDiv(status[p].bytesCompleted - s.lastBytes, elapsed)
         speed == IF raw < 0 THEN 0 ELSE raw
     IN IF s.lastSpeedCheck # 0 /\ elapsed > 0
          THEN /\ sess' = [sess EXCEPT ![status[p].ptr].lastSpeed = speed]
               /\ status' = [status EXCEPT ![p].pc = "storeBytes", ![p].speed = speed]
          ELSE /\ status' = [status EXCEPT ![p].pc = "storeBytes"]
               /\ UNCHANGED sess
  /\ UNCHANGED <<clTorrents, torrents, readers, sessions, start, stop, probe,
                 req, cmd, clock, process, call, mu>>

\* sess.lastBytes = bytesCompleted
StatusStoreBytes(p) ==
  /\ status[p].pc = "storeBytes"
  /\ sess' = [sess EXCEPT ![status[p].ptr].lastBytes = status[p].bytesCompleted]
  /\ status' = [status EXCEPT ![p].pc = "storeTime"]
  /\ UNCHANGED <<clTorrents, torrents, readers, sessions, start, stop, probe,
                 req, cmd, clock, process, call, mu>>

\* sess.lastSpeedCheck = now; the StreamStatus is built and returned.
StatusStoreTime(p) ==
  /\ status[p].pc = "storeTime"
  /\ sess' = [sess EXCEPT ![status[p].ptr].lastSpeedCheck = status[p].now]
  /\ status' = [status EXCEPT ![p].pc = "done", ![p].result = "ok"]
  /\ UNCHANGED <<clTorrents, torrents, readers, sessions, start, stop, probe,
                 req, cmd, clock, process, call, mu>>

\* float64(bytesCompleted) / float64(FileSize) * 100: not a number when both
\* are 0, otherwise the quotient (whole: its integer part).
BufferedPercent(bytesCompleted, fileSize) ==
  IF fileSize = 0
    THEN [nan |-> bytesCompleted = 0, inf |-> bytesCompleted # 0, whole |-> 0]
    ELSE [nan |-> FALSE, inf |-> FALSE, whole |-> (bytesCompleted * 100) \div fileSize]

\* The StreamStatus a completed GetStatus call p returned.
StreamStatus(p) ==
  LET s == sess[status[p].ptr]
  IN [Status |-> s.Status,
      DownloadedBytes |-> status[p].bytesCompleted,
      TotalBytes |-> s.FileSize,
      DownloadSpeed |-> status[p].speed,
      PeersConnected |-> status[p].peers,
      BufferedPercent |-> BufferedPercent(status[p].bytesCompleted, s.FileSize)]

\* ------------------------------------------------- Server.ServeStream
Min(a, b) == IF a < b THEN a ELSE b

\* Session.NewReader: a fresh reader with 16 MiB read-ahead.
NewReader(s) == NewReaderObj(sess[s].torrent, StatusReadahead)

\* A faulty variant of RequestReader: the request serves from the session's
\* long-lived status reader (Session.GetReader).
RequestReader_Status(r) == sess[req[r].ptr].reader

\* The reader a request serves from.
RequestReader(r) == 2 * MaxStarts + r

\* GetSession, 404 when absent, then the choice of path and the parsing of
\* the t and audio query parameters (absent or unparsable: 0 and -1).
ReqLookup(r, id, t, audio) ==
  /\ req[r].pc = "idle"
  /\ Invoked(req, r)
  /\ LET s == GetSession(id)
     IN req' = [req EXCEPT ![r].id = id, ![r].ptr = s,
                  ![r].pc = IF s = Nil THEN "done"
                            ELSE IF ~sess[s].NeedsTranscode THEN "direct"
                            ELSE "remux",
                  ![r].code = IF s = Nil THEN 404 ELSE 0,
                  ![r].json = IF s = Nil THEN "session not found" ELSE "",
                  ![r].t = IF t > 0 THEN t ELSE 0,
                  ![r].audio = IF audio >= 0 THEN audio ELSE -1]
  /\ UNCHANGED <<clTorrents, torrents, readers, sess, sessions, start, stop,
                 probe, status, cmd, clock, process, call, mu>>

\* A faulty variant of ReqDirectOpen: the reader is not moved to the first
\* byte of the range.
ReqDirectOpen_NoSeek(r, rg) ==
  LET a == IF rg = <<>> THEN 0 ELSE rg[1]
      b == IF rg = <<>> THEN sess[req[r].ptr].FileSize - 1 ELSE rg[2]
  IN /\ req[r].pc = "direct"
     /\ 0 <= a /\ a <= b /\ b < sess[req[r].ptr].FileSize
     /\ readers' = [[readers EXCEPT ![2 * MaxStarts + r] = NewReader(req[r].ptr)]
                      EXCEPT ![2 * MaxStarts + r].users = @ \cup {r}]
     /\ req' = [req EXCEPT ![r].pc = "serving", ![r].reader = 2 * MaxStarts + r,
                           ![r].offset = 0, ![r].last = b - a,
                           ![r].code = IF rg = <<>> THEN 200 ELSE 206]
     /\ UNCHANGED <<clTorrents, torrents, sess, sessions, start, stop, probe,
                    status, cmd, clock, process, call, mu>>

\* Direct path: sess.NewReader(), then http.ServeContent.  rg is the Range
\* header: <<>> when absent, <<a, b>> for "bytes=a-b".  Without a header the
\* whole file is served with 200; with one, ServeContent seeks to a and serves
\* the bytes up to b with 206.
ReqDirectOpen(r, rg) ==
  LET a == IF rg = <<>> THEN 0 ELSE rg[1]
      b == IF rg = <<>> THEN sess[req[r].ptr].FileSize - 1 ELSE rg[2]
  IN /\ req[r].pc = "direct"
     /\ 0 <= a /\ a <= b /\ b < sess[req[r].ptr].FileSize
     /\ readers' = [[readers EXCEPT ![2 * MaxStarts + r] = NewReader(req[r].ptr)]
                      EXCEPT ![RequestReader(r)].pos = a,
                             ![RequestReader(r)].users = @ \cup {r}]
     /\ req' = [req EXCEPT ![r].pc = "serving", ![r].reader = RequestReader(r),
                           ![r].offset = a, ![r].last = b,
                           ![r].code = IF rg = <<>> THEN 200 ELSE 206]
  /\ UNCHANGED <<clTorrents, torrents, sess, sessions, start, stop, probe,
                 status, cmd, clock, process, call, mu>>

\* A faulty variant of ReadOutcome: a Read keeps waiting for its piece after
\* the reader or its torrent was closed.
ReadOutcome_BlocksOnClosed(rd) ==
  LET h == readers[rd].torrent
      pos == readers[rd].pos
  IN IF pos >= readers[rd].length THEN "eof"
     ELSE IF (pos \div PieceLength) \in torrents[h].have THEN "data"
     ELSE "blocked"

\* A Read on reader rd: "error" when the reader or its torrent is closed,
\* "eof" at the end of the file, "data" when the piece under the position has
\* arrived, otherwise the Read blocks.
ReadOutcome(rd) ==
  LET h == readers[rd].torrent
      pos == readers[rd].pos
  IN IF ReaderClosed(rd) \/ torrents[h].closed THEN "error"
     ELSE IF pos >= readers[rd].length THEN "eof"
     ELSE IF (pos \div PieceLength) \in torrents[h].have THEN "data"
     ELSE "blocked"

\* Bytes a Read at the position returns: up to the end of the piece.
ReadLength(rd) == PieceLength - (readers[rd].pos % PieceLength)

\* One round of ServeContent's copy loop: Read from the reader, Write to the
\* client.  A failed Read or Write, or the last byte of the range, ends it.
\* sent records what was written: for each chunk the file offset its bytes
\* were read at and their number.
ReqDirectRead(r) ==
  /\ req[r].pc = "serving"
  /\ LET rd == req[r].reader
         n == Min(ReadLength(rd), req[r].last + 1 - readers[rd].pos)
     IN /\ ReadOutcome(rd) # "blocked"
        /\ IF ReadOutcome(rd) = "data"
             THEN /\ readers' = [readers EXCEPT ![rd].pos = @ + n,
                                                ![rd].users = @ \cup {r}]
                  /\ IF req[r].client = "gone"
                       THEN req' = [req EXCEPT ![r].pc = "closing", ![r].got = @ + n]
                       ELSE req' = [req EXCEPT ![r].body = @ + n, ![r].got = @ + n,
                              ![r].sent = Append(@, <<readers[rd].pos, n>>),
                              ![r].pc = IF readers[rd].pos + n > req[r].last
                                        THEN "closing" ELSE "serving"]
             ELSE /\ req' = [req EXCEPT ![r].pc = "closing"]
                  /\ UNCHANGED readers
  /\ UNCHANGED <<clTorrents, torrents, sess, sessions, start, stop, probe,
                 status, cmd, clock, process, call, mu>>

\* A faulty variant of ReqClose: the handler returns and leaves its reader
\* open.
ReqClose_LeavesOpen(r) ==
  /\ req[r].pc = "closing"
  /\ req' = [req EXCEPT ![r].pc = "done"]
  /\ UNCHANGED <<clTorrents, torrents, readers, sess, sessions, start, stop,
                 probe, status, cmd, clock, process, call, mu>>

\* The deferred reader.Close() of the handler, then its return.
ReqClose(r) ==
  /\ req[r].pc = "closing"
  /\ readers' = [readers EXCEPT ![req[r].reader].closes = @ + 1]
  /\ req' = [req EXCEPT ![r].pc = "done"]
  /\ UNCHANGED <<clTorrents, torrents, sess, sessions, start, stop, probe,
                 status, cmd, clock, process, call, mu>>

\* The client closes its connection.
ClientDisconnect(r) ==
  /\ req[r].pc \notin {"idle", "done"}
  /\ req[r].client = "connected"
  /\ req' = [req EXCEPT ![r].client = "gone"]
  /\ UNCHANGED <<clTorrents, torrents, readers, sess, sessions, start, stop,
                 probe, status, cmd, clock, process, call, mu>>

\* ------------------------------------------------- Server.serveTranscoded
\* strconv.FormatFloat(seekTime, 'f', 3, 64) and fmt.Sprintf("0:a:%d", n).
FormatSeconds(t) ==
  CASE t = 1 -> "1.000" [] t = 2 -> "2.000" [] t = 3 -> "3.000"
    [] t = 4 -> "4.000" [] OTHER -> "0.000"
FormatAudio(n) ==
  CASE n = 0 -> "0:a:0" [] n = 1 -> "0:a:1" [] OTHER -> "0:a:2"

\* int64(seekTime / Duration * float64(FileSize)) backed off by 5 MiB.
SeekOffset(t, duration, fileSize) ==
  LET bytePos == (t * fileSize) \div duration
  IN IF bytePos > SeekBackoff THEN bytePos - SeekBackoff ELSE 0

\* A faulty variant of FfmpegArgs: the argument list is built from the query
\* parameters of the first request that was served.
FfmpegArgs_FirstRequest(t, audio) ==
  (IF req[1].t > 0 THEN <<"-ss", FormatSeconds(req[1].t)>> ELSE <<>>)
  \o <<"-i", "pipe:0">>
  \o (IF req[1].audio >= 0
        THEN <<"-map", "0:v:0", "-map", FormatAudio(req[1].audio)>> ELSE <<>>)
  \o <<"-c:v", "copy", "-c:a", "aac", "-b:a", "192k", "-movflags",
       "frag_keyframe+empty_moov+default_base_moof", "-f", "mp4", "-y", "pipe:1">>

FfmpegArgs(t, audio) ==
  (IF t > 0 THEN <<"-ss", FormatSeconds(t)>> ELSE <<>>)
  \o <<"-i", "pipe:0">>
  \o (IF audio >= 0 THEN <<"-map", "0:v:0", "-map", FormatAudio(audio)>> ELSE <<>>)
  \o <<"-c:v", "copy", "-c:a", "aac", "-b:a", "192k", "-movflags",
       "frag_keyframe+empty_moov+default_base_moof", "-f", "mp4", "-y", "pipe:1">>

\* A faulty variant of ReqRemuxOpen: the remuxer is launched in the step that
\* opens the reader.
ReqRemuxOpen_StartsRemuxer(r) ==
  /\ req[r].pc = "remux"
  /\ readers' = [[readers EXCEPT ![2 * MaxStarts + r] = NewReader(req[r].ptr)]
                   EXCEPT ![2 * MaxStarts + r].users = @ \cup {r}]
  /\ req' = [req EXCEPT ![r].pc = "wait", ![r].reader = 2 * MaxStarts + r,
                        ![r].args = FfmpegArgs(req[r].t, req[r].audio)]
  /\ cmd' = [cmd EXCEPT ![r].proc = "running", ![r].stdin = "copying",
                        ![r].stdout = "copying"]
  /\ UNCHANGED <<clTorrents, torrents, sess, sessions, start, stop, probe,
                 status, clock, process, call, mu>>

\* The fresh reader of the request, positioned by NewReaderAt when a seek
\* time was given and the duration is known; the argument list is built.
ReqRemuxOpen(r) ==
  /\ req[r].pc = "remux"
  /\ LET s == sess[req[r].ptr]
         off == IF req[r].t > 0 /\ s.Duration > 0
                  THEN SeekOffset(req[r].t, s.Duration, s.FileSize) ELSE 0
     IN /\ readers' = [[readers EXCEPT ![2 * MaxStarts + r] = NewReader(req[r].ptr)]
                         EXCEPT ![RequestReader(r)].pos = IF off > 0 THEN off ELSE @,
                                ![RequestReader(r)].users = @ \cup {r}]
        /\ req' = [req EXCEPT ![r].pc = "start", ![r].reader = RequestReader(r),
                              ![r].offset = off,
                              ![r].args = FfmpegArgs(req[r].t, req[r].audio)]
  /\ UNCHANGED <<clTorrents, torrents, sess, sessions, start, stop, probe,
                 status, cmd, clock, process, call, mu>>

\* A faulty variant of ReqRemuxStart: a failed start is not reported to the
\* client.
ReqRemuxStart_FailureSilent(r, started) ==
  /\ req[r].pc = "start"
  /\ IF started
       THEN /\ cmd' = [cmd EXCEPT ![r].proc = "running", ![r].stdin = "copying",
                                  ![r].stdout = "copying"]
            /\ req' = [req EXCEPT ![r].pc = "wait"]
       ELSE /\ req' = [req EXCEPT ![r].pc = "closing"]
            /\ UNCHANGED cmd
  /\ UNCHANGED <<clTorrents, torrents, readers, sess, sessions, start, stop,
                 probe, status, clock, process, call, mu>>

\* cmd.Start(): the process and the two copy goroutines run, or the start
\* fails and the handler answers 500 with a JSON error body.
ReqRemuxStart(r, started) ==
  /\ req[r].pc = "start"
  /\ IF started
       THEN /\ cmd' = [cmd EXCEPT ![r].proc = "running", ![r].stdin = "copying",
                                  ![r].stdout = "copying"]
            /\ req' = [req EXCEPT ![r].pc = "wait"]
       ELSE /\ req' = [req EXCEPT ![r].pc = "closing", ![r].code = 500,
                                   ![r].json = "transcoding failed to start"]
            /\ UNCHANGED cmd
  /\ UNCHANGED <<clTorrents, torrents, readers, sess, sessions, start, stop,
                 probe, status, clock, process, call, mu>>

\* The goroutine copying the reader into the remuxer's standard input: one
\* Read, one write to the pipe.  It ends on a Read error or end of file
\* (closing the pipe) and on a write to a pipe whose reading process is gone.
StdinCopy(r) ==
  /\ cmd[r].stdin = "copying"
  /\ LET rd == req[r].reader
     IN /\ ReadOutcome(rd) # "blocked"
        /\ IF ReadOutcome(rd) = "data"
             THEN /\ cmd[r].proc = "exited" \/ cmd[r].inPipe = 0
                  /\ readers' = [readers EXCEPT ![rd].pos = @ + ReadLength(rd),
                                                ![rd].users = @ \cup {r}]
                  /\ req' = [req EXCEPT ![r].got = @ + ReadLength(rd)]
                  /\ IF cmd[r].proc = "exited"
                       THEN cmd' = [cmd EXCEPT ![r].stdin = "done", ![r].inClosed = TRUE]
                       ELSE cmd' = [cmd EXCEPT ![r].inPipe = 1]
             ELSE /\ cmd' = [cmd EXCEPT ![r].stdin = "done", ![r].inClosed = TRUE]
                  /\ UNCHANGED <<readers, req>>
  /\ UNCHANGED <<clTorrents, torrents, sess, sessions, start, stop, probe,
                 status, clock, process, call, mu>>

\* The remuxer turns one chunk of input into one fragment of output; the
\* write fails with "Broken pipe" when the reading end of its output is closed.
RemuxerStep(r) ==
  /\ cmd[r].proc = "running"
  /\ cmd[r].inPipe > 0
  /\ cmd[r].outClosed \/ cmd[r].outPipe = 0
  /\ IF cmd[r].outClosed
       THEN cmd' = [cmd EXCEPT ![r].proc = "exited", ![r].exit = "Broken pipe",
                               ![r].inPipe = 0]
       ELSE cmd' = [cmd EXCEPT ![r].inPipe = 0, ![r].outPipe = 1]
  /\ UNCHANGED <<clTorrents, torrents, readers, sess, sessions, start, stop,
                 probe, status, req, clock, process, call, mu>>

\* The remuxer reaches the end of its input and exits 0.
RemuxerEOF(r) ==
  /\ cmd[r].proc = "running"
  /\ cmd[r].inPipe = 0
  /\ cmd[r].inClosed
  /\ cmd' = [cmd EXCEPT ![r].proc = "exited", ![r].exit = "ok"]
  /\ UNCHANGED <<clTorrents, torrents, readers, sess, sessions, start, stop,
                 probe, status, req, clock, process, call, mu>>

\* The remuxer refuses its input or its arguments and exits non-zero.
RemuxerError(r) ==
  /\ cmd[r].proc = "running"
  /\ cmd' = [cmd EXCEPT ![r].proc = "exited", ![r].exit = "error", ![r].inPipe = 0]
  /\ UNCHANGED <<clTorrents, torrents, readers, sess, sessions, start, stop,
                 probe, status, req, clock, process, call, mu>>

\* The goroutine copying the remuxer's standard output to the response
\* writer.  A failed write (client gone) ends it and closes the pipe; so does
\* the end of the remuxer's output.
StdoutCopy(r) ==
  /\ cmd[r].stdout = "copying"
  /\ cmd[r].outPipe > 0 \/ cmd[r].proc = "exited"
  /\ IF cmd[r].outPipe > 0
       THEN IF req[r].client = "gone"
              THEN /\ cmd' = [cmd EXCEPT ![r].stdout = "done", ![r].outPipe = 0,
                                         ![r].outClosed = TRUE]
                   /\ UNCHANGED req
              ELSE /\ cmd' = [cmd EXCEPT ![r].outPipe = 0]
                   /\ req' = [req EXCEPT ![r].body = @ + 1, ![r].code = 200]
       ELSE /\ cmd' = [cmd EXCEPT ![r].stdout = "done", ![r].outClosed = TRUE]
            /\ UNCHANGED req
  /\ UNCHANGED <<clTorrents, torrents, readers, sess, sessions, start, stop,
                 probe, status, clock, process, call, mu>>

\* A faulty variant of ReqWaitCopy: a remuxer that exited with an error makes
\* the handler answer with an error and leave without closing its reader.
ReqWaitCopy_FailsOnError(r) ==
  /\ req[r].pc = "waitCopy"
  /\ cmd[r].stdin = "done"
  /\ cmd[r].stdout = "done"
  /\ req' = [req EXCEPT ![r].pc = IF cmd[r].exit = "error" THEN "done" ELSE "closing",
                        ![r].json = IF cmd[r].exit = "error" THEN "transcoding failed" ELSE @]
  /\ UNCHANGED <<clTorrents, torrents, readers, sess, sessions, start, stop,
                 probe, status, cmd, clock, process, call, mu>>

\* A faulty variant of ReqWaitProcess: the handler goes on without waiting
\* for the process to exit.
ReqWaitProcess_NoWait(r) ==
  /\ req[r].pc = "wait"
  /\ cmd' = [cmd EXCEPT ![r].waits = @ + 1]
  /\ req' = [req EXCEPT ![r].pc = "closing"]
  /\ UNCHANGED <<clTorrents, torrents, readers, sess, sessions, start, stop,
                 probe, status, clock, process, call, mu>>

\* A faulty variant of ReqWaitCopy: the handler returns without the deferred
\* Close of its reader.
ReqWaitCopy_NoClose(r) ==
  /\ req[r].pc = "waitCopy"
  /\ cmd[r].stdin = "done"
  /\ cmd[r].stdout = "done"
  /\ req' = [req EXCEPT ![r].pc = "done"]
  /\ UNCHANGED <<clTorrents, torrents, readers, sess, sessions, start, stop,
                 probe, status, cmd, clock, process, call, mu>>

\* cmd.Wait(): the exited process is reaped, then Wait waits for the two
\* copy goroutines; the handler returns through its deferred Close.
ReqWaitProcess(r) ==
  /\ req[r].pc = "wait"
  /\ cmd[r].proc = "exited"
  /\ cmd' = [cmd EXCEPT ![r].waits = @ + 1]
  /\ req' = [req EXCEPT ![r].pc = "waitCopy"]
  /\ UNCHANGED <<clTorrents, torrents, readers, sess, sessions, start, stop,
                 probe, status, clock, process, call, mu>>

\* The rest of cmd.Wait(): both copy goroutines have ended.
ReqWaitCopy(r) ==
  /\ req[r].pc = "waitCopy"
  /\ cmd[r].stdin = "done"
  /\ cmd[r].stdout = "done"
  /\ req' = [req EXCEPT ![r].pc = "closing"]
  /\ UNCHANGED <<clTorrents, torrents, readers, sess, sessions, start, stop,
                 probe, status, cmd, clock, process, call, mu>>

\* ------------------------------------------------- the HTTP handlers
\* The status each handler of the API writes for the result of its Manager
\* call; 0 while the call has not returned.
StatusOK == 200
StatusNotFound == 404
StatusBadRequest == 400
StatusInternalServerError == 500

\* POST /api/stream/start with a body that binds.
startStream(p) ==
  IF start[p].pc # "done" THEN 0
  ELSE IF start[p].err # "" THEN StatusInternalServerError
  ELSE StatusOK

\* GET /api/stream/:id/status
getStreamStatus(p) ==
  IF status[p].pc # "done" THEN 0
  ELSE IF status[p].result # "ok" THEN StatusInternalServerError
  ELSE StatusOK

\* DELETE /api/stream/:id
stopStream(q) ==
  IF stop[q].pc # "done" THEN 0
  ELSE IF stop[q].result # "ok" THEN StatusInternalServerError
  ELSE StatusOK

\* ------------------------------------------------- inputs
ProbeDurations == {0, 2}
ProbeTracks == {<<>>, <<"Track 1 (und)">>}
PeerCounts == {2, 3}
SeekInputs == {0, 3}
SeekTimes == {0, 1, 3, 4}
AudioInputs == {-1, 0}
\* Range headers of direct requests: none (the whole file) or the second piece.
Ranges(size) == {<<>>, <<PieceLength, size - 1>>}
\* Range headers of concurrent direct requests: none, the whole file, and two
\* disjoint ranges off the piece boundaries, the first crossing one.
DisjointRanges(size) ==
  {<<>>, <<0, size - 1>>, <<1, PieceLength>>, <<PieceLength + 1, size - 1>>}

\* File lists handed to findLargestVideoFile: names with a video extension
\* in lower and upper case, with another extension, with a video extension
\* that is not the last one, with a video extension that belongs to a
\* directory over a name without extension; lengths that tie, and a length
\* of 0.
PathInputs ==
  { <<"a", ".", "m", "k", "v">>, <<"b", ".", "M", "P", "4">>,
    <<"c", ".", "t", "x", "t">>,
    <<"e", ".", "m", "k", "v", ".", "t", "x", "t">>,
    <<"f", ".", "m", "k", "v", "/", "g">> }
LengthInputs == {0, 2}
FileInputs == [path : PathInputs, length : LengthInputs]
FileLists == UNION {[1..n -> FileInputs] : n \in 0..MaxFiles}

\* ------------------------------------------------- ProviderRegistry
\* The registered providers, in registration order, and what each one's
\* search returns when it succeeds; results of different providers overlap.
Providers == 1..MaxProviders
ProviderResults(p) == [i \in 1..(p % 3) |-> 10 + i]

SearchRunning == call.fn \in {"Search", "SearchTV"}

\* The call begins: no result, no goroutine, the loop before its first
\* provider.  failing are the providers whose search returns an error, tvs
\* the providers that implement TVSearcher.
SearchCall(tv, failing, tvs) ==
  /\ call.fn = ""
  /\ call' = [fn |-> IF tv THEN "SearchTV" ELSE "Search", arg |-> <<failing, tvs>>,
              ret |-> <<>>, err |-> "unset", pc |-> "loop", i |-> 0, wg |-> 0,
              g |-> [p \in Providers |-> "none"], allResults |-> <<>>]
  /\ UNCHANGED <<clTorrents, torrents, readers, sess, sessions, start, stop, probe,
                 status, req, cmd, clock, process, mu>>

\* One iteration of the loop over r.providers: SearchTV skips a provider that
\* is no TVSearcher; otherwise wg.Add(1) and the goroutine is started.  After
\* the last provider the call is at wg.Wait().
SearchSpawn ==
  /\ SearchRunning
  /\ call.pc = "loop"
  /\ IF call.i = MaxProviders
       THEN call' = [call EXCEPT !.pc = "wait"]
       ELSE LET p == call.i + 1
            IN IF call.fn = "SearchTV" /\ p \notin call.arg[2]
                 THEN call' = [call EXCEPT !.i = p]
                 ELSE call' = [call EXCEPT !.i = p, !.wg = @ + 1, !.g[p] = "running"]
  /\ UNCHANGED <<clTorrents, torrents, readers, sess, sessions, start, stop, probe,
                 status, req, cmd, clock, process, mu>>

\* The provider's search returns.  On an error the goroutine logs it and
\* ends through its deferred wg.Done().
ProviderAnswers(p) ==
  /\ SearchRunning
  /\ call.g[p] = "running"
  /\ IF p \in call.arg[1]
       THEN call' = [call EXCEPT !.g[p] = "done", !.wg = @ - 1]
       ELSE call' = [call EXCEPT !.g[p] = "append"]
  /\ UNCHANGED <<clTorrents, torrents, readers, sess, sessions, start, stop, probe,
                 status, req, cmd, clock, process, mu>>

\* Under the call's mutex the results are appended; wg.Done().
ProviderAppend(p) ==
  /\ SearchRunning
  /\ call.g[p] = "append"
  /\ call' = [call EXCEPT !.allResults = @ \o ProviderResults(p),
                          !.g[p] = "done", !.wg = @ - 1]
  /\ UNCHANGED <<clTorrents, torrents, readers, sess, sessions, start, stop, probe,
                 status, req, cmd, clock, process, mu>>

\* A faulty variant of SearchReturn: the call does not wait for its goroutines.
SearchReturn_NoWait ==
  /\ SearchRunning
  /\ call.pc = "wait"
  /\ call' = [call EXCEPT !.pc = "done", !.ret = call.allResults, !.err = "nil"]
  /\ UNCHANGED <<clTorrents, torrents, readers, sess, sessions, start, stop, probe,
                 status, req, cmd, clock, process, mu>>

\* wg.Wait() returns when the counter is zero; return allResults, nil.
SearchReturn ==
  /\ SearchRunning
  /\ call.pc = "wait"
  /\ call.wg = 0
  /\ call' = [call EXCEPT !.pc = "done", !.ret = call.allResults, !.err = "nil"]
  /\ UNCHANGED <<clTorrents, torrents, readers, sess, sessions, start, stop, probe,
                 status, req, cmd, clock, process, mu>>

\* ------------------------------------------------- next-state relations
StartStream(p) ==
  \/ \E m \in Magnets : StartAddMagnet(p, m)
  \/ StartSelectFile(p)
  \/ StartInsert(p)

probeMedia(b) ==
  \/ ProbeOpen(b)
  \/ ProbeFail(b)
  \/ \E dur \in ProbeDurations, tracks \in ProbeTracks : ProbeReport(b, dur, tracks)

StopSession(p) ==
  \/ \E id \in SessionIDs : StopRemove(p, id)
  \/ StopCloseReader(p)
  \/ StopDrop(p)

GetStatus(p) ==
  \/ \E id \in SessionIDs : StatusLookup(p, id)
  \/ \E peers \in PeerCounts : StatusSample(p, peers)
  \/ StatusSpeed(p)
  \/ StatusStoreBytes(p)
  \/ StatusStoreTime(p)

\* The remux pipeline of request r once its reader is open.
serveTranscoded(r) ==
  \/ ReqRemuxOpen(r)
  \/ StdinCopy(r)
  \/ RemuxerStep(r)
  \/ RemuxerEOF(r)
  \/ StdoutCopy(r)
  \/ ReqWaitProcess(r)
  \/ ReqWaitCopy(r)
  \/ ReqClose(r)

\* ------------------------------------------------- the operations, lock by lock
\* StartStream with m.mu taken and released in steps of their own: the
\* insertion is the only step made while the lock is held.
StartLock(p) == start[p].pc = "insert" /\ Lock(<<"StartStream", p>>) /\ OnlyMu
StartUnlock(p) == start[p].pc = "done" /\ Unlock(<<"StartStream", p>>) /\ OnlyMu

StartLockedPart(p) ==
  \/ StartLock(p)
  \/ Holds(<<"StartStream", p>>) /\ StartInsert(p)
  \/ StartUnlock(p)

LockedStartStream(p) ==
  \/ StartAddMagnet(p, IF p = 1 THEN MkvMagnet ELSE Mp4Magnet)
  \/ StartSelectFile(p)
  \/ StartLockedPart(p)

\* StopSession: Lock, lookup and delete, Unlock on either branch; the Close
\* and the Drop follow the Unlock.
StopLock(q) ==
  /\ stop[q].pc = "idle"
  /\ Invoked(stop, q)
  /\ Lock(<<"StopSession", q>>)
  /\ OnlyMu

\* A faulty variant of StopUnlock: the not-found branch returns with the lock held.
StopUnlock_FoundOnly(q) == stop[q].pc = "close" /\ Unlock(<<"StopSession", q>>) /\ OnlyMu

StopUnlock(q) == stop[q].pc # "idle" /\ Unlock(<<"StopSession", q>>) /\ OnlyMu

\* A faulty variant of StopReleased: the Unlock is deferred, the Close and the
\* Drop may run before it.
StopReleased_Deferred(q) == TRUE

\* The Unlock of line 485 has run.
StopReleased(q) == ~Holds(<<"StopSession", q>>)

StopLockedPart(q) ==
  \/ StopLock(q)
  \/ Holds(<<"StopSession", q>>) /\ \E id \in SessionIDs : StopRemove(q, id)
  \/ StopUnlock(q)

LockedStopSession(q) ==
  \/ StopLockedPart(q)
  \/ StopReleased(q) /\ StopCloseReader(q)
  \/ StopReleased(q) /\ StopDrop(q)

\* GetStatus: RLock, lookup, RUnlock; the rest runs without the lock.
StatusRLock(p) ==
  /\ status[p].pc = "idle"
  /\ Invoked(status, p)
  /\ RLock(<<"GetStatus", p>>)
  /\ OnlyMu

StatusRUnlock(p) == status[p].pc # "idle" /\ RUnlock(<<"GetStatus", p>>) /\ OnlyMu

LockedGetStatus(p) ==
  \/ StatusRLock(p)
  \/ Holds(<<"GetStatus", p>>) /\ \E id \in SessionIDs : StatusLookup(p, id)
  \/ StatusRUnlock(p)

\* GetSession as ServeStream calls it: RLock, lookup, deferred RUnlock.
GetSessionRLock(r) ==
  /\ req[r].pc = "idle"
  /\ Invoked(req, r)
  /\ RLock(<<"GetSession", r>>)
  /\ OnlyMu

GetSessionRUnlock(r) == req[r].pc # "idle" /\ RUnlock(<<"GetSession", r>>) /\ OnlyMu

LockedGetSession(r) ==
  \/ GetSessionRLock(r)
  \/ Holds(<<"GetSession", r>>) /\ \E id \in SessionIDs : ReqLookup(r, id, 0, -1)
  \/ GetSessionRUnlock(r)

\* probeMedia: the lock is taken after ffprobe has answered, for the two field
\* writes only; they are one step, made when the lock is free.
LockedProbeMedia(b) ==
  \/ ProbeOpen(b)
  \/ ProbeFail(b)
  \/ mu = Unlocked /\ \E dur \in ProbeDurations : ProbeReport(b, dur, <<>>)

\* One session over the magnet(s) ms and the swarm behind it.
OneSession(ms) ==
  \/ \E m \in ms : StartAddMagnet(1, m)
  \/ StartSelectFile(1)
  \/ StartInsert(1)
  \/ PeerDeliversInfo(1)
  \/ \E i \in Pieces(1) : PieceArrives(1, i)

\* The Manager's session lifecycle: concurrent StartStream and StopSession
\* calls over every magnet and every session id.
Next ==
  \/ \E p \in Starters : StartStream(p)
  \/ \E p \in Stoppers : StopSession(p)
  \/ \E h \in Handles : PeerDeliversInfo(h)

Spec == Init /\ [][Next]_vars

\* The goroutines running StartStream and StopSession are scheduled fairly;
\* the swarm and the callers of the API are under no obligation.
FairSpec ==
  /\ Spec
  /\ \A p \in Starters : WF_vars(StartSelectFile(p)) /\ WF_vars(StartInsert(p))
  /\ \A q \in Stoppers : WF_vars(StopCloseReader(q)) /\ WF_vars(StopDrop(q))

\* One remux request on one session, with its probe, a StopSession call, the
\* client and every ending of the remuxer.
NextRemux ==
  \/ OneSession({MkvMagnet})
  \/ probeMedia(1)
  \/ StopSession(1)
  \/ \E id \in SessionIDs, t \in SeekInputs, audio \in AudioInputs :
       ReqLookup(1, id, t, audio)
  \/ \E started \in BOOLEAN : ReqRemuxStart(1, started)
  \/ serveTranscoded(1)
  \/ RemuxerError(1)
  \/ ClientDisconnect(1)

SpecRemux == Init /\ [][NextRemux]_vars

\* The goroutines of the server and the remuxer process are scheduled fairly;
\* the swarm, the client and the callers of the API are under no obligation.
FairSpecRemux ==
  /\ SpecRemux
  /\ WF_vars(ReqRemuxOpen(1))
  /\ WF_vars(\E started \in BOOLEAN : ReqRemuxStart(1, started))
  /\ WF_vars(StdinCopy(1))
  /\ WF_vars(RemuxerStep(1))
  /\ WF_vars(RemuxerEOF(1))
  /\ WF_vars(StdoutCopy(1))
  /\ WF_vars(ReqWaitProcess(1))
  /\ WF_vars(ReqWaitCopy(1))
  /\ WF_vars(ReqClose(1))
  /\ WF_vars(StopCloseReader(1))
  /\ WF_vars(StopDrop(1))

\* Concurrent requests, direct and remux, on one session that a StopSession
\* call may stop under them; remuxers fail to start or exit with an error and
\* clients disconnect.
NextStream ==
  \/ OneSession({MkvMagnet, Mp4Magnet})
  \/ StopSession(1)
  \/ \E r \in Requests :
       \/ ReqLookup(r, 1, 0, -1)
       \/ \E rg \in Ranges(2 * PieceLength) : ReqDirectOpen(r, rg)
       \/ ReqDirectRead(r)
       \/ \E started \in BOOLEAN : ReqRemuxStart(r, started)
       \/ serveTranscoded(r)
       \/ RemuxerError(r)
       \/ ClientDisconnect(r)

SpecStream == Init /\ [][NextStream]_vars

\* Concurrent requests, direct and remux, that run to completion on one
\* session whose duration the probe has reported.
NextShare ==
  \/ OneSession({MkvMagnet, Mp4Magnet})
  \/ ProbeOpen(1)
  \/ ProbeReport(1, 2, <<"Track 1 (und)">>)
  \/ \E r \in Requests :
       \/ \E t \in SeekInputs : ReqLookup(r, 1, t, -1)
       \/ \E rg \in Ranges(2 * PieceLength) : ReqDirectOpen(r, rg)
       \/ ReqDirectRead(r)
       \/ ReqRemuxStart(r, TRUE)
       \/ serveTranscoded(r)

SpecShare == Init /\ [][NextShare]_vars

\* One request, direct or remux, on one session that a StopSession call stops
\* under it, with every ending of the remuxer and of the client.
NextHalt ==
  \/ OneSession({MkvMagnet, Mp4Magnet})
  \/ StopSession(1)
  \/ ReqLookup(1, 1, 0, -1)
  \/ \E rg \in Ranges(2 * PieceLength) : ReqDirectOpen(1, rg)
  \/ ReqDirectRead(1)
  \/ \E started \in BOOLEAN : ReqRemuxStart(1, started)
  \/ serveTranscoded(1)
  \/ RemuxerError(1)
  \/ ClientDisconnect(1)

SpecHalt == Init /\ [][NextHalt]_vars

\* The goroutines of the server, of StopSession and the remuxer process are
\* scheduled fairly; the swarm, the client and the callers of the API are
\* under no obligation.
FairSpecHalt ==
  /\ SpecHalt
  /\ WF_vars(\E rg \in Ranges(2 * PieceLength) : ReqDirectOpen(1, rg))
  /\ WF_vars(ReqDirectRead(1))
  /\ WF_vars(ReqRemuxOpen(1))
  /\ WF_vars(\E started \in BOOLEAN : ReqRemuxStart(1, started))
  /\ WF_vars(StdinCopy(1))
  /\ WF_vars(RemuxerStep(1))
  /\ WF_vars(RemuxerEOF(1))
  /\ WF_vars(StdoutCopy(1))
  /\ WF_vars(ReqWaitProcess(1))
  /\ WF_vars(ReqWaitCopy(1))
  /\ WF_vars(ReqClose(1))
  /\ WF_vars(StopCloseReader(1))
  /\ WF_vars(StopDrop(1))

\* Query parameters of remux requests: none, or a seek time and an audio track.
FreshQueries == {<<0, -1>>, <<3, 0>>}

\* Successive and concurrent requests on one session, direct or remux, whose
\* remuxers fail to start or exit with an error and whose clients disconnect.
NextFresh ==
  \/ OneSession({SmallMagnet, Mp4Magnet})
  \/ \E r \in Requests :
       \/ \E qy \in FreshQueries : ReqLookup(r, 1, qy[1], qy[2])
       \/ \E rg \in Ranges(2 * PieceLength) : ReqDirectOpen(r, rg)
       \/ ReqDirectRead(r)
       \/ \E started \in BOOLEAN : ReqRemuxStart(r, started)
       \/ serveTranscoded(r)
       \/ RemuxerError(r)
       \/ ClientDisconnect(r)

SpecFresh == Init /\ [][NextFresh]_vars

\* The server process from start to end: one session with its probe, a
\* StopSession call and a remux request, and the end of the process, after
\* which no goroutine of it takes a step.
NextDown ==
  \/ /\ process = "running"
     /\ \/ OneSession({MkvMagnet})
        \/ ProbeOpen(1)
        \/ StopSession(1)
        \/ ReqLookup(1, 1, 0, -1)
        \/ ReqRemuxOpen(1)
        \/ ReqRemuxStart(1, TRUE)
        \/ StdinCopy(1)
        \/ StdoutCopy(1)
  \/ \E deferred \in BOOLEAN : mainExits(deferred)
  \/ RemuxerStep(1)
  \/ RemuxerEOF(1)

SpecDown == Init /\ [][NextDown]_vars

\* findLargestVideoFile applied to a file list.
SelectFile(files) ==
  /\ call.fn = ""
  /\ call' = [fn |-> "findLargestVideoFile", arg |-> files,
              ret |-> findLargestVideoFile(files)]
  /\ UNCHANGED <<clTorrents, torrents, readers, sess, sessions, start, stop,
                 probe, status, req, cmd, clock, process, mu>>

NextSelect == \E files \in FileLists : SelectFile(files)

SpecSelect == Init /\ [][NextSelect]_vars

\* Concurrent direct requests, with and without a Range header, that run to
\* completion on one MP4 session.
NextRange ==
  \/ OneSession({Mp4Magnet})
  \/ \E r \in Requests :
       \/ ReqLookup(r, 1, 0, -1)
       \/ \E rg \in DisjointRanges(2 * PieceLength) : ReqDirectOpen(r, rg)
       \/ ReqDirectRead(r)
       \/ ReqClose(r)

SpecRange == Init /\ [][NextRange]_vars

\* Direct requests on one MP4 session with its probe, a StopSession call that
\* may stop it under them, and clients that disconnect.
NextDirect ==
  \/ OneSession({Mp4Magnet})
  \/ ProbeOpen(1)
  \/ ProbeFail(1)
  \/ StopSession(1)
  \/ \E r \in Requests :
       \/ ReqLookup(r, 1, 0, -1)
       \/ \E rg \in Ranges(2 * PieceLength) : ReqDirectOpen(r, rg)
       \/ ReqDirectRead(r)
       \/ ReqClose(r)
       \/ ClientDisconnect(r)

SpecDirect == Init /\ [][NextDirect]_vars

\* A ListFiles call on any magnet beside one session and its StopSession.
NextList ==
  \/ OneSession({MkvMagnet})
  \/ StopSession(1)
  \/ \E m \in Magnets : ListAddMagnet(m)
  \/ PeerDeliversInfo(ListHandle)
  \/ \E ok \in BOOLEAN : ListReturn(ok)

SpecList == Init /\ [][NextList]_vars

\* Two sessions, each with its StartStream, its probe and a StopSession call,
\* and the lookups of GetStatus and GetSession, every use of m.mu a step.
NextLock ==
  \/ \E p \in Starters : LockedStartStream(p)
  \/ \E h \in Handles : PeerDeliversInfo(h)
  \/ PieceArrives(1, 0)
  \/ LockedProbeMedia(1)
  \/ \E q \in Stoppers : LockedStopSession(q)
  \/ LockedGetStatus(1)
  \/ LockedGetSession(1)

SpecLock == Init /\ [][NextLock]_vars

\* Session 1 never receives its metadata and the probe of session 2 never
\* ends; beside them session 2 is started, looked up and stopped.
NextBlock ==
  \/ StartAddMagnet(1, MkvMagnet)
  \/ LockedStartStream(2)
  \/ PeerDeliversInfo(2)
  \/ ProbeOpen(2)
  \/ \E q \in Stoppers : LockedStopSession(q)
  \/ LockedGetStatus(1)
  \/ LockedGetSession(1)

SpecBlock == Init /\ [][NextBlock]_vars

\* The goroutines are scheduled fairly through their use of the lock and the
\* lookups and StopSession calls are made; nothing obliges the calls that can
\* block to return: the metadata, the probe, the Close of a reader and the
\* Drop of a torrent may wait forever.  Every step is taken at most once, so
\* fairness of the union is fairness of each goroutine.
Scheduled ==
  \/ StartLockedPart(2)
  \/ \E q \in Stoppers : StopLockedPart(q)
  \/ LockedGetStatus(1)
  \/ LockedGetSession(1)

FairSpecBlock == SpecBlock /\ WF_vars(Scheduled)

\* One Search or SearchTV call over providers that fail or not and implement
\* TVSearcher or not.
NextSearch ==
  \/ \E tv \in BOOLEAN, failing \in SUBSET Providers, tvs \in SUBSET Providers :
       SearchCall(tv, failing, tvs)
  \/ SearchSpawn
  \/ \E p \in Providers : ProviderAnswers(p)
  \/ \E p \in Providers : ProviderAppend(p)
  \/ SearchReturn

SpecSearch == Init /\ [][NextSearch]_vars

\* One session with its probe, a GetStatus call and a StopSession call, in
\* every interleaving.
NextRace ==
  \/ OneSession({MkvMagnet})
  \/ probeMedia(1)
  \/ GetStatus(1)
  \/ StopSession(1)

SpecRace == Init /\ [][NextRace]_vars

\* The goroutines of StopSession and of the probe are scheduled fairly, and a
\* prober whose input has failed exits; the swarm and the callers of the API
\* are under no obligation.
FairSpecRace ==
  /\ SpecRace
  /\ WF_vars(StopCloseReader(1))
  /\ WF_vars(StopDrop(1))
  /\ WF_vars(ProbeOpen(1))
  /\ WF_vars(probe[1].pc = "running" /\ ReadOutcome(probe[1].reader) = "error" /\ ProbeFail(1))

\* The opening of remux requests on one session, large or small, before and
\* after its probe has reported or failed, for every seek time.
NextSeek ==
  \/ OneSession({MkvMagnet, SmallMagnet})
  \/ probeMedia(1)
  \/ \E r \in Requests :
       \/ \E t \in SeekTimes, audio \in AudioInputs : ReqLookup(r, 1, t, audio)
       \/ ReqRemuxOpen(r)

SpecSeek == Init /\ [][NextSeek]_vars

\* One session whose probe fails or reports, with a status call and a remux
\* request that run before, during or after the probe.
NextProbe ==
  \/ OneSession({MkvMagnet})
  \/ probeMedia(1)
  \/ GetStatus(1)
  \/ \E t \in SeekInputs, audio \in AudioInputs : ReqLookup(1, 1, t, audio)
  \/ ReqRemuxOpen(1)

SpecProbe == Init /\ [][NextProbe]_vars

\* Concurrent GetStatus calls on one session while pieces arrive and the
\* clock advances.
NextStatus ==
  \/ OneSession({MkvMagnet, EmptyMagnet})
  \/ Tick
  \/ \E p \in StatusCallers : GetStatus(p)

SpecStatus == Init /\ [][NextStatus]_vars

\* GetStatus calls on one session that never overlap: a call begins when the
\* one before it has returned.
NextStatusSeq ==
  \/ OneSession({MkvMagnet})
  \/ Tick
  \/ \E p \in StatusCallers :
       /\ \A q \in StatusCallers : q < p => status[q].pc = "done"
       /\ GetStatus(p)

SpecStatusSeq == Init /\ [][NextStatusSeq]_vars

\* ------------------------------------------------- properties
\* C1: every session present in the registry references a torrent that has
\* not been dropped, also when several sessions were started from one magnet
\* and one of them is stopped.
C1_RegisteredTorrentAlive ==
  \A id \in SessionIDs :
    sessions[id] # Nil => ~torrents[sess[sessions[id]].torrent].closed

\* C2: every successful StartStream has one torrent add of its own, no torrent
\* is dropped more than once, and a stopped session's torrent has been dropped
\* exactly once.
C2_OneAddOneDrop ==
  /\ \A p \in Starters : start[p].ret # Nil => start[p].t = p
  /\ \A h \in Handles : torrents[h].drops <= 1
  /\ \A q \in Stoppers :
       stop[q].result = "ok" => torrents[sess[stop[q].ptr].torrent].drops = 1

\* With one session, whatever its requests, remuxers and clients do, the
\* torrent is dropped by StartStream's no-video path and by StopSession only.
DropsByStartAndStopOnly ==
  /\ start[1].adds <= 1
  /\ torrents[1].drops = start[1].drops + stop[1].drops
  /\ stop[1].drops <= 1
  /\ stop[1].result = "ok" => stop[1].drops = 1

\* C3: among the StopSession calls on one id at most one finds the session,
\* and exactly one once the id has left the registry; every other call returns
\* not-found without closing a reader or dropping a torrent; only the call
\* that found the session closes and drops, once each; a call on an id that
\* was never created returns not-found.
C3_StopExactlyOnce ==
  /\ \A id \in SessionIDs :
       Cardinality({q \in Stoppers : stop[q].id = id /\ stop[q].result # "not found"}) <= 1
  /\ \A q \in Stoppers :
       /\ stop[q].result = "not found" =>
            stop[q].pc = "done" /\ stop[q].closes = 0 /\ stop[q].drops = 0
       /\ stop[q].result = "ok" =>
            stop[q].pc = "done" /\ stop[q].closes = 1 /\ stop[q].drops = 1
       /\ (stop[q].id # Nil /\ stop[q].result # "not found") =>
            \E p \in Starters : start[p].ret = stop[q].id
  /\ \A p \in Starters :
       (start[p].ret # Nil /\ sessions[start[p].ret] = Nil) =>
         \E q \in Stoppers : stop[q].id = start[p].ret /\ stop[q].result # "not found"

\* Two StopSession calls on the id of a created session have returned: one
\* with success, one with not-found.
C3_Witness ==
  \E q1, q2 \in Stoppers, p \in Starters :
    /\ start[p].ret # Nil
    /\ stop[q1].id = start[p].ret /\ stop[q1].result = "ok"
    /\ stop[q2].id = start[p].ret /\ stop[q2].result = "not found"

\* C4: from the return of StartStream until a StopSession call finds the id,
\* GetSession(id) returns a session whose ID is id, whatever happens to other
\* sessions.
C4_GetSessionStable ==
  \A p \in Starters :
    (/\ start[p].ret # Nil
     /\ \A q \in Stoppers : stop[q].id = start[p].ret => stop[q].result = "not found")
    => /\ GetSession(start[p].ret) # Nil
       /\ sess[GetSession(start[p].ret)].ID = start[p].ret

\* Two sessions were started and the other one stopped; this one is still
\* returned by GetSession.
C4_Witness ==
  \E p1, p2 \in Starters, q \in Stoppers :
    /\ p1 # p2
    /\ start[p1].ret # Nil /\ start[p2].ret # Nil
    /\ stop[q].id = start[p2].ret /\ stop[q].result = "ok"
    /\ GetSession(start[p1].ret) = start[p1].ptr
    /\ \A q2 \in Stoppers : stop[q2].id # start[p1].ret

\* C5: after the client of a remux request disconnects while the remuxer
\* runs, the remuxer eventually terminates and the handler eventually returns.
C5_DisconnectTerminates ==
  \A r \in Requests :
    (req[r].client = "gone" /\ cmd[r].proc = "running")
      ~> (cmd[r].proc = "exited" /\ req[r].pc = "done")

\* C6: when the handler of a remux request whose remuxer was started returns,
\* the remuxer has exited or has been sent a termination signal.
C6_NoRunningRemuxerAtReturn ==
  \A r \in Requests :
    (req[r].pc \in {"closing", "done"} /\ cmd[r].proc # "none")
      => (cmd[r].proc = "exited" \/ cmd[r].signalled)

\* A handler has returned after its client disconnected and its remuxer ended.
C6_Witness ==
  \E r \in Requests :
    /\ req[r].pc = "done"
    /\ req[r].client = "gone"
    /\ cmd[r].proc = "exited"

\* C7: the reader of a remux request is never closed twice and the remuxer
\* never reaped twice; when the request is finished the reader has been closed
\* once and a started remuxer reaped once, its copy goroutines ended, whether
\* the client disconnected, the remuxer exited by itself or the reader failed.
C7_ReleasedExactlyOnce ==
  \A r \in Requests :
    /\ cmd[r].waits <= 1
    /\ req[r].reader # Nil => readers[req[r].reader].closes <= 1
    /\ (req[r].pc = "done" /\ req[r].reader # Nil) =>
         readers[req[r].reader].closes = 1
    /\ (req[r].pc = "done" /\ cmd[r].proc # "none") =>
         /\ cmd[r].waits = 1
         /\ cmd[r].proc = "exited"
         /\ cmd[r].stdin = "done"
         /\ cmd[r].stdout = "done"

\* A remux request has finished after its reader failed (the session was
\* stopped under it): the remuxer saw the end of its input and exited.
C7_Witness ==
  \E r \in Requests :
    /\ req[r].pc = "done"
    /\ cmd[r].proc = "exited"
    /\ cmd[r].exit = "ok"
    /\ torrents[readers[req[r].reader].torrent].closed
    /\ readers[req[r].reader].pos < readers[req[r].reader].length

\* C8: no reader is used by two requests; the session's status reader serves
\* no request and never moves; the position of a request's reader is where
\* that request put it: its starting offset plus the bytes it has read.
C8_ReadersNotShared ==
  /\ \A rd \in ReaderIds : Cardinality(readers[rd].users) <= 1
  /\ \A s \in Starters :
       /\ readers[StatusReaderOf(s)].users = {}
       /\ readers[StatusReaderOf(s)].pos = 0
  /\ \A r \in Requests :
       req[r].reader # Nil =>
         /\ readers[req[r].reader].users = {r}
         /\ readers[req[r].reader].pos = req[r].offset + req[r].got
  /\ \A r1, r2 \in Requests :
       (r1 # r2 /\ req[r1].reader # Nil) => req[r1].reader # req[r2].reader

\* Two requests are in flight on one session, both have read, and their
\* readers stand at different positions.
C8_Witness ==
  \E r1, r2 \in Requests :
    /\ r1 # r2
    /\ req[r1].ptr # Nil /\ req[r1].ptr = req[r2].ptr
    /\ req[r1].pc \notin {"idle", "done"} /\ req[r2].pc \notin {"idle", "done"}
    /\ req[r1].got > 0 /\ req[r2].got > 0
    /\ readers[req[r1].reader].pos # readers[req[r2].reader].pos

\* C9: the read-modify-write of a session's speed sample by one GetStatus call
\* (from its read of lastSpeedCheck and lastBytes to its store of
\* lastSpeedCheck) excludes that of every other GetStatus call on the session.
C9_SampleUpdateExclusive ==
  \A p, q \in StatusCallers :
    (p # q /\ status[p].ptr # Nil /\ status[p].ptr = status[q].ptr)
      => ~(/\ status[p].pc \in {"storeBytes", "storeTime"}
           /\ status[q].pc \in {"storeBytes", "storeTime"})

\* The stored sample of session s is the pair one GetStatus call observed.
SamplePairOfOneCall(s) ==
  \/ sess[s].lastSpeedCheck = 0 /\ sess[s].lastBytes = 0
  \/ \E p \in StatusCallers :
       /\ status[p].ptr = s
       /\ status[p].pc = "done"
       /\ status[p].now = sess[s].lastSpeedCheck
       /\ status[p].bytesCompleted = sess[s].lastBytes

\* C10: a session's lastSpeedCheck never decreases, and whenever no GetStatus
\* call is between its two stores, lastBytes and lastSpeedCheck are the pair
\* observed by one call.
C10_SamplesMonotonic ==
  /\ [][\A s \in Starters : sess'[s].lastSpeedCheck >= sess[s].lastSpeedCheck]_vars
  /\ [](\A s \in Starters :
          (\A p \in StatusCallers :
             ~(status[p].ptr = s /\ status[p].pc = "storeTime"))
          => SamplePairOfOneCall(s))

\* C11: for an id that is not in the registry, GET /stream/:id, GET
\* /stream/:id/status and DELETE /stream/:id each answer 404, and the call
\* closes no reader, drops no torrent and opens no reader.
C11_UnknownIdIs404 ==
  /\ \A r \in Requests :
       (req[r].pc = "done" /\ req[r].ptr = Nil) =>
         req[r].code = StatusNotFound /\ req[r].reader = Nil
  /\ \A p \in StatusCallers :
       (status[p].pc = "done" /\ status[p].result = "not found") =>
         getStreamStatus(p) = StatusNotFound
  /\ \A q \in Stoppers :
       (stop[q].pc = "done" /\ stop[q].result = "not found") =>
         stopStream(q) = StatusNotFound /\ stop[q].closes = 0 /\ stop[q].drops = 0

\* C12: a StartStream whose magnet URI does not parse is answered 400; it
\* adds no torrent, creates no session and opens no reader.
C12_BadMagnetIs400 ==
  \A p \in Starters :
    (start[p].pc = "done" /\ start[p].magnet = BadMagnet) =>
      /\ startStream(p) = StatusBadRequest
      /\ start[p].adds = 0 /\ start[p].t = Nil
      /\ start[p].ptr = Nil /\ start[p].ret = Nil
      /\ sess[p] = NoSession
      /\ readers[StatusReaderOf(p)] = NoReader

\* C13: a StartStream call that has added its magnet always returns, also
\* when no peer ever delivers the info dictionary.
C13_AddMagnetTerminates ==
  \A p \in Starters : (start[p].pc = "waitInfo") ~> (start[p].pc = "done")

\* C14: a StartStream on a torrent without a video file returns an error
\* after dropping the torrent it added; it opens no reader, builds and
\* registers no session and launches no probe.
C14_NoVideoDropsTorrent ==
  \A p \in Starters :
    (start[p].pc = "done" /\ start[p].err = "no video file found in torrent") =>
      /\ start[p].adds = 1 /\ start[p].drops = 1
      /\ torrents[start[p].t].closed
      /\ start[p].ret = Nil /\ start[p].ptr = Nil
      /\ sess[p] = NoSession
      /\ \A id \in SessionIDs : sessions[id] # p
      /\ readers[StatusReaderOf(p)] = NoReader
      /\ readers[ProbeReaderOf(p)] = NoReader
      /\ probe[p].pc = "none"
      /\ startStream(p) # StatusOK

\* A StartStream on a torrent holding only a text file has returned its error
\* while another session is registered.
C14_Witness ==
  \E p \in Starters, id \in SessionIDs :
    /\ start[p].pc = "done"
    /\ start[p].magnet = TxtMagnet
    /\ start[p].err = "no video file found in torrent"
    /\ sessions[id] # Nil

\* The larger of two numbers.
Max(a, b) == IF a > b THEN a ELSE b

\* The starting offset of every opened remux request whose seek took effect
\* is the estimate backed off by 5 MiB and never negative.
SeekOffsetIsBackedOffEstimate ==
  \A r \in Requests :
    (req[r].reader # Nil /\ req[r].offset > 0) =>
      LET s == sess[req[r].ptr]
      IN /\ s.Duration > 0 /\ req[r].t > 0
         /\ req[r].offset = Max(0, ((req[r].t * s.FileSize) \div s.Duration) - 5 * MiB)
         /\ readers[req[r].reader].pos = req[r].offset
         /\ ~(s.FileSize < 5 * MiB /\ req[r].t <= s.Duration)

\* C15: a remux request with t > 0 on a session of known duration starts at
\* max(0, floor(t / duration * file_size) - 5 MiB); the offset is never
\* negative, and it is 0 for every file smaller than 5 MiB.
C15_SeekOffsetClamped ==
  \A r \in Requests :
    (req[r].reader # Nil /\ req[r].t > 0) =>
      LET s == sess[req[r].ptr]
      IN /\ req[r].offset >= 0
         /\ req[r].offset > 0 =>
              req[r].offset = Max(0, ((req[r].t * s.FileSize) \div s.Duration) - 5 * MiB)
         /\ s.FileSize < 5 * MiB => req[r].offset = 0

\* C16: a remux request with t > 0 on a session whose duration is still 0 is
\* served like a request with t = 0: offset 0 and the argument list of t = 0.
C16_SeekIgnoredWithoutDuration ==
  \A r \in Requests :
    (req[r].reader # Nil /\ req[r].t > 0 /\ sess[req[r].ptr].Duration = 0) =>
      /\ req[r].offset = 0
      /\ readers[req[r].reader].pos = 0
      /\ req[r].args = FfmpegArgs(0, req[r].audio)

\* C17: every status returned by GetStatus has 0 <= downloaded_bytes <=
\* total_bytes and a buffered_percent that is a number between 0 and 100,
\* also for a session whose file has length 0.
C17_StatusWithinBounds ==
  \A p \in StatusCallers :
    (status[p].pc = "done" /\ status[p].result = "ok") =>
      LET st == StreamStatus(p)
      IN /\ 0 <= st.DownloadedBytes
         /\ st.DownloadedBytes <= st.TotalBytes
         /\ ~st.BufferedPercent.nan
         /\ ~st.BufferedPercent.inf
         /\ 0 <= st.BufferedPercent.whole
         /\ st.DownloadedBytes * 100 <= 100 * st.TotalBytes

\* For files of positive length the returned status is within its bounds and
\* the percentage is the one derived from the returned byte counts.
StatusWithinBoundsOfNonEmptyFile ==
  \A p \in StatusCallers :
    (status[p].pc = "done" /\ status[p].result = "ok"
       /\ sess[status[p].ptr].FileSize > 0) =>
      LET st == StreamStatus(p)
      IN /\ 0 <= st.DownloadedBytes
         /\ st.DownloadedBytes <= st.TotalBytes
         /\ ~st.BufferedPercent.nan /\ ~st.BufferedPercent.inf
         /\ 0 <= st.BufferedPercent.whole /\ st.BufferedPercent.whole <= 100
         /\ st.BufferedPercent.whole = (st.DownloadedBytes * 100) \div st.TotalBytes

\* The fields of a session that are fixed at its creation.
CreationFields(s) ==
  <<s.ID, s.MagnetURI, s.InfoHash, s.FilePath, s.FileSize, s.ContentType,
    s.NeedsTranscode>>

\* The path a request has taken, as far as its state shows it.
TookDirectPath(r) == req[r].pc \in {"direct", "serving"} \/ req[r].code = 206
TookRemuxPath(r) ==
  \/ req[r].pc \in {"remux", "start", "wait", "waitCopy"}
  \/ req[r].args # <<>>

\* C18: the needs-remux flag of a session is the one computed from the
\* lower-cased extension of its file (neither mp4 nor webm); no step changes
\* it, nor the id, infohash, file path, file size and content type, once the
\* session is created; a request takes the direct path only when the flag is
\* false and the remux path only when it is true.
C18_CreationFieldsImmutable ==
  /\ [][\A s \in Starters :
          sess[s].ID # Nil => CreationFields(sess'[s]) = CreationFields(sess[s])]_vars
  /\ [](\A s \in Starters :
          sess[s].ID # Nil =>
            sess[s].NeedsTranscode =
              (ToLower(Ext(sess[s].FilePath)) \notin
                 {<<".", "m", "p", "4">>, <<".", "w", "e", "b", "m">>}))
  /\ [](\A r \in Requests :
          req[r].ptr # Nil =>
            /\ TookDirectPath(r) => ~sess[req[r].ptr].NeedsTranscode
            /\ TookRemuxPath(r) => sess[req[r].ptr].NeedsTranscode)

\* The probe has written the duration of a remux session and a request on
\* it has been served through the remuxer to its end.
C18_Witness ==
  \E r \in Requests :
    /\ req[r].pc = "done"
    /\ req[r].ptr # Nil
    /\ cmd[r].proc = "exited"
    /\ sess[req[r].ptr].NeedsTranscode
    /\ sess[req[r].ptr].Duration > 0

\* C19: a session's duration is 0 until its probe has completed; the only
\* step that changes it is the completion of the session's probe, and it sets
\* a positive value; a failed probe or one that reports 0 leaves it 0; a
\* positive duration is never set back to 0.
C19_DurationSetOnlyByProbe ==
  /\ [](\A s \in Starters :
          /\ sess[s].Duration >= 0
          /\ probe[s].pc # "done" => sess[s].Duration = 0
          /\ sess[s].Duration > 0 => sess[s].Duration \in ProbeDurations)
  /\ [][\A s \in Starters :
          /\ sess'[s].Duration # sess[s].Duration =>
                /\ probe[s].pc = "running" /\ probe'[s].pc = "done"
                /\ sess'[s].Duration > 0
          /\ sess[s].Duration > 0 => sess'[s].Duration = sess[s].Duration]_vars

\* The probe of a session has completed with a positive duration and a
\* request has then opened its reader on the session.
C19_Witness ==
  \E s \in Starters, r \in Requests :
    /\ probe[s].pc = "done"
    /\ sess[s].Duration = 2
    /\ req[r].ptr = s
    /\ req[r].offset > 0

\* C20: after a failed probe the session is still in the registry with
\* duration 0 and no audio tracks, the probe's reader is closed once, the
\* StartStream that launched the probe has returned success, and every
\* GetStatus and stream request that found the session is answered as if no
\* probe had run: GetStatus succeeds, the request is not refused and opens at
\* offset 0.
C20_ProbeFailureNonFatal ==
  \A b \in Starters :
    probe[b].pc = "failed" =>
      /\ GetSession(sess[b].ID) = b
      /\ sess[b].Duration = 0
      /\ sess[b].AudioTracks = <<>>
      /\ readers[probe[b].reader].closes = 1
      /\ sess[b].Status = "ready"
      /\ \E p \in Starters : start[p].ptr = b /\ start[p].err = "" /\ startStream(p) = StatusOK
      /\ \A p \in StatusCallers :
           (status[p].ptr = b /\ status[p].pc = "done") =>
             /\ status[p].result = "ok"
             /\ getStreamStatus(p) = StatusOK
      /\ \A r \in Requests :
           req[r].ptr = b =>
             /\ req[r].code \notin {StatusNotFound, StatusInternalServerError}
             /\ req[r].reader # Nil =>
                  req[r].offset = 0 /\ readers[req[r].reader].pos = 0

\* The probe of a session has failed; afterwards a GetStatus call on the
\* session has returned and a request with a seek time has opened its reader.
C20_Witness ==
  \E b \in Starters, p \in StatusCallers, r \in Requests :
    /\ probe[b].pc = "failed"
    /\ status[p].ptr = b /\ status[p].pc = "done"
    /\ req[r].ptr = b /\ req[r].t > 0 /\ req[r].reader # Nil

\* C21: once a StopSession call on a session has succeeded, every stream
\* request in flight on that session eventually returns, with its own reader
\* closed and, on the remux path, its remuxer no longer running.
C21_StopEndsInFlightRequests ==
  \A r \in Requests :
    (/\ req[r].ptr # Nil
     /\ req[r].pc \notin {"idle", "done"}
     /\ \E q \in Stoppers : stop[q].result = "ok" /\ stop[q].ptr = req[r].ptr)
    ~> (/\ req[r].pc = "done"
        /\ req[r].reader # Nil
        /\ readers[req[r].reader].closes = 1
        /\ cmd[r].proc # "running")

\* The session was stopped under a request whose client stayed connected: the
\* request has returned with a truncated body, its reader closed short of the
\* last byte it was to serve.
C21_Witness ==
  \E r \in Requests, q \in Stoppers :
    /\ stop[q].result = "ok" /\ stop[q].ptr = req[r].ptr
    /\ req[r].pc = "done"
    /\ req[r].client = "connected"
    /\ req[r].got > 0
    /\ readers[req[r].reader].closes = 1
    /\ readers[req[r].reader].pos < readers[req[r].reader].length
    /\ torrents[readers[req[r].reader].torrent].closed

\* The elements of a sequence.
Elems(seq) == {seq[i] : i \in 1..Len(seq)}

\* The state that belongs to request r alone: its handler, its remuxer with
\* the copy goroutines, and its reader.
PerRequest(r) == <<req[r], cmd[r], readers[2 * MaxStarts + r]>>

\* C22: every request that found the session is served from state of its
\* own, whatever earlier or concurrent requests on the session did: its
\* reader is used and closed by it alone and stands where it put it, its
\* remuxer is run with the seek time and audio track of its own query, it is
\* refused only for a failure of its own remuxer to start, and no step of one
\* request changes the state of another.
C22_FreshRequestIndependent ==
  /\ [](\A r \in Requests :
          req[r].reader # Nil =>
            /\ \A r2 \in Requests : r2 # r => req[r2].reader # req[r].reader
            /\ readers[req[r].reader].users = {r}
            /\ readers[req[r].reader].pos = req[r].offset + req[r].got
            /\ readers[req[r].reader].closes = (IF req[r].pc = "done" THEN 1 ELSE 0)
            /\ TookRemuxPath(r) =>
                 /\ ("-ss" \in Elems(req[r].args)) = (req[r].t > 0)
                 /\ req[r].t > 0 => FormatSeconds(req[r].t) \in Elems(req[r].args)
                 /\ ("-map" \in Elems(req[r].args)) = (req[r].audio >= 0)
                 /\ req[r].audio >= 0 => FormatAudio(req[r].audio) \in Elems(req[r].args)
                 /\ req[r].audio < 0 => FormatAudio(0) \notin Elems(req[r].args))
  /\ [](\A r \in Requests :
          req[r].ptr # Nil =>
            /\ req[r].code # StatusNotFound
            /\ req[r].code = StatusInternalServerError =>
                 (cmd[r].proc = "none" /\ req[r].pc \in {"closing", "done"}))
  /\ [][\A r1, r2 \in Requests :
          r1 # r2 => (PerRequest(r1)' = PerRequest(r1) \/ PerRequest(r2)' = PerRequest(r2))]_vars

\* A request whose remuxer exited with an error has returned, and a later
\* request on the same session, with another seek time and audio track, is
\* receiving the output of its own remuxer.
C22_Witness ==
  \E r1, r2 \in Requests :
    /\ r1 # r2
    /\ req[r1].ptr # Nil /\ req[r1].ptr = req[r2].ptr
    /\ req[r1].pc = "done"
    /\ cmd[r1].exit = "error"
    /\ req[r2].t # req[r1].t /\ req[r2].audio # req[r1].audio
    /\ cmd[r2].proc = "running"
    /\ req[r2].body > 0

\* C23: when the server process has ended, no session is left in the
\* registry, every session that was registered has had its status reader
\* closed and its torrent dropped, and no remuxer started by a request is
\* running.
C23_ShutdownTearsDown ==
  process = "exited" =>
    /\ \A id \in SessionIDs : sessions[id] = Nil
    /\ \A p \in Starters :
         start[p].ret # Nil =>
           /\ ReaderClosed(sess[start[p].ptr].reader)
           /\ torrents[sess[start[p].ptr].torrent].drops = 1
    /\ \A r \in Requests : cmd[r].proc # "running"

\* Sessions that StopSession removed before the process ended are torn down.
StoppedBeforeExitTornDown ==
  \A q \in Stoppers :
    (process = "exited" /\ stop[q].result = "ok") =>
      /\ sessions[stop[q].id] = Nil
      /\ ReaderClosed(sess[stop[q].ptr].reader)
      /\ torrents[sess[stop[q].ptr].torrent].drops = 1

\* The state of a remux request in the terms of the specified state machine:
\* Idle until its reader is open, ReaderReady until its remuxer runs, Piping
\* while the remuxer runs, Draining from the exit of the remuxer, Closed when
\* the handler has returned.
RemuxState(r) ==
  IF req[r].pc = "done" THEN "Closed"
  ELSE IF req[r].reader = Nil THEN "Idle"
  ELSE IF cmd[r].proc = "none" THEN "ReaderReady"
  ELSE IF cmd[r].proc = "running" THEN "Piping"
  ELSE "Draining"

\* The transitions of the diagram.
DiagramTransitions ==
  { <<"Idle", "ReaderReady">>, <<"ReaderReady", "Piping">>,
    <<"Piping", "Draining">>, <<"Draining", "Closed">> }

\* Every step of a request on a session moves it along a transition of the
\* set, or leaves its state as it is.
MovesAlong(transitions) ==
  \A r \in Requests :
    req'[r].ptr # Nil =>
      \/ RemuxState(r)' = RemuxState(r)
      \/ <<RemuxState(r), RemuxState(r)'>> \in transitions

\* Closed is terminal and nothing is written to the response after it.
ClosedIsTerminal ==
  \A r \in Requests :
    req[r].pc = "done" => (req'[r].pc = "done" /\ req'[r].body = req[r].body)

\* C24 as stated: every remux request follows only the transitions Idle ->
\* ReaderReady -> Piping -> Draining -> Closed of the diagram, the remuxer is
\* never started before the reader is open, Closed is terminal and no response
\* bytes are written after it; a failed start of the remuxer adds no
\* transition.
C24_OnlyDiagramTransitions ==
  /\ [][MovesAlong(DiagramTransitions)]_vars
  /\ [][ClosedIsTerminal]_vars
  /\ [](\A r \in Requests : cmd[r].proc # "none" => req[r].reader # Nil)

\* C24 amended: as above, with one more transition, ReaderReady -> Closed,
\* taken exactly by the requests whose remuxer failed to start and that were
\* answered 500.
C24_DiagramWithStartFailure ==
  /\ [][MovesAlong(DiagramTransitions \cup {<<"ReaderReady", "Closed">>})]_vars
  /\ [][ClosedIsTerminal]_vars
  /\ [](\A r \in Requests :
          /\ cmd[r].proc # "none" => req[r].reader # Nil
          /\ (req[r].pc = "done" /\ req[r].ptr # Nil /\ cmd[r].proc = "none") =>
               req[r].code = StatusInternalServerError
          /\ (req[r].pc = "done" /\ req[r].ptr # Nil /\ cmd[r].proc # "none") =>
               (cmd[r].proc = "exited" /\ req[r].code # StatusInternalServerError))

\* A request whose remuxer failed to start has returned with 500, its reader
\* closed, without a remuxer having run.
C24_Witness ==
  \E r \in Requests :
    /\ req[r].pc = "done"
    /\ req[r].ptr # Nil
    /\ req[r].code = StatusInternalServerError
    /\ cmd[r].proc = "none"
    /\ readers[req[r].reader].closes = 1

\* The extensions of the claim, without the dot.
VideoExtensionNames ==
  { <<"m", "p", "4">>, <<"m", "k", "v">>, <<"a", "v", "i">>, <<"w", "e", "b", "m">>,
    <<"m", "o", "v">>, <<"w", "m", "v">>, <<"f", "l", "v">>, <<"m", "4", "v">> }

\* The file's name ends in a dot and one of those extensions, in any case.
HasVideoExtension(f) ==
  \E e \in VideoExtensionNames :
    /\ Len(f.path) > Len(e)
    /\ ToLower(SubSeq(f.path, Len(f.path) - Len(e) + 1, Len(f.path))) = e
    /\ f.path[Len(f.path) - Len(e)] = "."

\* C25: the file findLargestVideoFile chooses has a video extension,
\* compared without regard to case, and no other file with a video extension
\* is strictly longer; a file without one is never chosen; no file is chosen
\* exactly when the list holds no file with a video extension.
C25_LargestVideoFileChosen ==
  call.fn = "findLargestVideoFile" =>
    LET files == call.arg
        chosen == call.ret
    IN /\ chosen \in 0..Len(files)
       /\ (chosen = 0) = (\A i \in 1..Len(files) : ~HasVideoExtension(files[i]))
       /\ chosen # 0 =>
            /\ HasVideoExtension(files[chosen])
            /\ \A i \in 1..Len(files) :
                 HasVideoExtension(files[i]) => files[i].length <= files[chosen].length

\* The function chose an upper-case video file over a longer file that has
\* no video extension and over a video file of the same length listed later.
C25_Witness ==
  /\ call.fn = "findLargestVideoFile"
  /\ call.ret # 0
  /\ call.arg[call.ret].path = <<"b", ".", "M", "P", "4">>
  /\ \E i \in 1..Len(call.arg) :
       ~HasVideoExtension(call.arg[i]) /\ call.arg[i].length > call.arg[call.ret].length
  /\ \E i \in 1..Len(call.arg) :
       /\ i > call.ret
       /\ HasVideoExtension(call.arg[i])
       /\ call.arg[i].length = call.arg[call.ret].length

\* The GetStatus call on the same session that was invoked last before call
\* p; 0 when p is the first.
PrevStatusCall(p) ==
  LET earlier == {q \in StatusCallers : q < p /\ status[q].ptr = status[p].ptr}
  IN IF earlier = {} THEN 0
     ELSE CHOOSE q \in earlier : \A q2 \in earlier : q2 <= q

\* C26: the first GetStatus call on a session returns speed 0; every later
\* call returns max(0, (downloaded_bytes - last_bytes) / (now - last_ts)) for
\* the sample of the call before it; the speed is never negative; and when a
\* call returns, the session's stored last_bytes and last_ts are those the
\* call observed.
C26_SpeedFromPreviousSample ==
  /\ [](\A p \in StatusCallers :
          (status[p].pc = "done" /\ status[p].result = "ok") =>
            LET q == PrevStatusCall(p)
            IN /\ status[p].speed >= 0
               /\ q = 0 => status[p].speed = 0
               /\ (q # 0 /\ status[q].pc = "done" /\ status[p].now > status[q].now) =>
                    status[p].speed =
                      Max(0, TruncDiv(status[p].bytesCompleted - status[q].bytesCompleted,
                                      status[p].now - status[q].now)))
  /\ [][\A p \in StatusCallers :
          (status[p].pc = "storeTime" /\ status'[p].pc = "done") =>
            /\ sess'[status[p].ptr].lastBytes = status[p].bytesCompleted
            /\ sess'[status[p].ptr].lastSpeedCheck = status[p].now]_vars

\* A later call has returned a positive speed computed from the sample of the
\* call before it.
SequentialSpeedMeasured ==
  \E p \in StatusCallers :
    /\ status[p].pc = "done" /\ status[p].result = "ok"
    /\ PrevStatusCall(p) # 0
    /\ status[p].speed > 0

\* The read-ahead the claim prescribes for a call that observed the peers and
\* byte counts given.
PrescribedReadahead(peers, downloaded, total) ==
  IF peers < 3 THEN 64 * 1024 * 1024
  ELSE IF downloaded * 100 < 10 * total THEN 32 * 1024 * 1024
  ELSE 16 * 1024 * 1024

\* Call p has passed its SetReadahead.
HasSetReadahead(p) == status[p].pc \in {"speed", "storeBytes", "storeTime", "done"}

\* C27: each GetStatus call sets the read-ahead of the session's status
\* reader to 64 MiB when it saw fewer than 3 active peers, to 32 MiB when it
\* saw at least 3 and less than 10 percent of the file, to 16 MiB otherwise,
\* and the reader keeps that value after the call; only GetStatus changes a
\* read-ahead, and only that of the status reader: per-request readers stay at
\* 16 MiB and probe readers at 10 MiB.
C27_ReadaheadPolicy ==
  /\ [][\A p \in StatusCallers :
          (status[p].pc = "sample" /\ status'[p].pc = "speed") =>
            LET s == sess[status[p].ptr]
            IN /\ status'[p].bytesCompleted = BytesCompleted(s.torrent)
               /\ readers'[s.reader].readahead =
                    PrescribedReadahead(status'[p].peers, status'[p].bytesCompleted,
                                        s.FileSize)]_vars
  /\ [](\A s \in Starters :
          sess[s].ID # Nil =>
            LET setters == {p \in StatusCallers : status[p].ptr = s /\ HasSetReadahead(p)}
            IN readers[sess[s].reader].readahead \in
                 (IF setters = {} THEN {16 * 1024 * 1024}
                  ELSE {PrescribedReadahead(status[p].peers, status[p].bytesCompleted,
                                            sess[s].FileSize) : p \in setters}))
  /\ [][\A rd \in ReaderIds :
          (readers[rd].torrent # Nil /\ readers'[rd].readahead # readers[rd].readahead) =>
            \E p \in StatusCallers :
              /\ status[p].pc = "sample" /\ status'[p].pc = "speed"
              /\ rd = sess[status[p].ptr].reader]_vars
  /\ [](\A r \in Requests :
          req[r].reader # Nil =>
            /\ req[r].reader \notin {sess[s].reader : s \in Starters}
            /\ readers[req[r].reader].readahead = 16 * 1024 * 1024)
  /\ [](\A b \in Starters :
          probe[b].reader # Nil =>
            /\ probe[b].reader \notin {sess[s].reader : s \in Starters}
            /\ readers[probe[b].reader].readahead = 10 * 1024 * 1024)

\* A GetStatus call that saw 3 peers and no byte of the file has returned
\* and the status reader reads 32 MiB ahead, while the probe's reader and a
\* request's reader are open on the session.
C27_Witness ==
  \E p \in StatusCallers, r \in Requests :
    /\ status[p].pc = "done" /\ status[p].result = "ok"
    /\ status[p].peers = 3 /\ status[p].bytesCompleted = 0
    /\ readers[sess[status[p].ptr].reader].readahead = 32 * 1024 * 1024
    /\ req[r].ptr = status[p].ptr /\ req[r].reader # Nil
    /\ probe[status[p].ptr].reader # Nil

\* The file offsets of the bytes a request has written, chunk after chunk, are
\* exactly first, first + 1, ..., last.
RECURSIVE SentIsRange(_, _, _)
SentIsRange(sent, first, last) ==
  IF sent = <<>> THEN first = last + 1
  ELSE /\ Head(sent)[1] = first
       /\ Head(sent)[2] > 0
       /\ SentIsRange(Tail(sent), first + Head(sent)[2], last)

\* C28: a direct request with Range bytes=a-b, 0 <= a <= b < file_size, is
\* answered 206 with exactly the b - a + 1 bytes of the file at offsets a..b,
\* a request without Range 200 with the whole file, also when several requests
\* with disjoint ranges are served at once on the session.
C28_DirectRangeExact ==
  \A r \in Requests :
    (req[r].pc = "done" /\ req[r].ptr # Nil /\ ~sess[req[r].ptr].NeedsTranscode) =>
      LET size == sess[req[r].ptr].FileSize
      IN /\ req[r].code \in {200, 206}
         /\ req[r].code = 200 =>
              /\ req[r].body = size
              /\ SentIsRange(req[r].sent, 0, size - 1)
         /\ req[r].code = 206 =>
              /\ 0 <= req[r].offset /\ req[r].offset <= req[r].last /\ req[r].last < size
              /\ req[r].body = req[r].last - req[r].offset + 1
              /\ SentIsRange(req[r].sent, req[r].offset, req[r].last)
              /\ \E rg \in DisjointRanges(size) : rg = <<req[r].offset, req[r].last>>

\* Two requests with disjoint ranges were in flight at once, each had read
\* before the other finished, and both have been answered in full.
C28_Witness ==
  \E r1, r2 \in Requests :
    /\ r1 # r2
    /\ req[r1].pc = "closing" /\ req[r2].pc = "closing"
    /\ req[r1].code = 206 /\ req[r2].code = 206
    /\ req[r1].last < req[r2].offset
    /\ req[r1].body = req[r1].last - req[r1].offset + 1
    /\ req[r2].body = req[r2].last - req[r2].offset + 1
    /\ Len(req[r1].sent) = 2

\* C29: a direct request closes the reader it opened once, and only when its
\* handler returns, whether it served its whole range, lost its client or
\* failed a read; so when no stream handler is in flight the only open readers
\* are status readers of sessions and the readers of running probes.
C29_DirectReaderClosedOnce ==
  /\ \A r \in Requests :
       (req[r].ptr # Nil /\ ~sess[req[r].ptr].NeedsTranscode /\ req[r].reader # Nil) =>
         readers[req[r].reader].closes = (IF req[r].pc = "done" THEN 1 ELSE 0)
  /\ \A r \in Requests :
       (req[r].pc = "done" /\ req[r].ptr # Nil) => req[r].reader # Nil
  /\ (\A r \in Requests : req[r].pc \in {"idle", "done"}) =>
       \A rd \in ReaderIds :
         (readers[rd].torrent # Nil /\ readers[rd].closes = 0) =>
           \E s \in Starters :
             \/ rd = sess[s].reader
             \/ rd = probe[s].reader /\ probe[s].pc = "running"

\* Two handlers have returned with their readers closed while the probe
\* runs: one had lost its client, the other failed a read on the stopped
\* session before the end of its range.
C29_Witness ==
  \E r1, r2 \in Requests :
    /\ r1 # r2
    /\ req[r1].pc = "done" /\ req[r2].pc = "done"
    /\ req[r1].client = "gone" /\ req[r1].reader # Nil
    /\ readers[req[r1].reader].closes = 1
    /\ req[r2].client = "connected" /\ req[r2].reader # Nil
    /\ req[r2].body < req[r2].last - req[r2].offset + 1
    /\ readers[req[r2].reader].closes = 1
    /\ probe[req[r1].ptr].pc = "running"

\* C30: on the step by which StopSession drops a session's torrent, every
\* reader over that torrent is already closed: the status reader, the readers
\* of stream requests in flight and the probe's reader.
C30_DropAfterLastReaderClosed ==
  [][\A q \in Stoppers :
       (stop[q].pc = "drop" /\ stop'[q].pc = "done") =>
         \A rd \in ReaderIds :
           readers[rd].torrent = sess[stop[q].ptr].torrent => ReaderClosed(rd)]_vars

\* On that step the session's status reader, at least, is closed, and closed
\* by this StopSession call.
StatusReaderClosedBeforeDrop ==
  [][\A q \in Stoppers :
       (stop[q].pc = "drop" /\ stop'[q].pc = "done") =>
         /\ ReaderClosed(sess[stop[q].ptr].reader)
         /\ stop[q].closes = 1]_vars

\* The remuxer of request r could not be started: the handler is past
\* cmd.Start() without a process.
StartFailed(r) ==
  /\ req[r].reader # Nil
  /\ sess[req[r].ptr].NeedsTranscode
  /\ req[r].pc \in {"closing", "done"}
  /\ cmd[r].proc = "none"

\* C31: a remux request whose remuxer cannot be started is answered 500 with
\* a JSON error body and no media byte, its reader is closed exactly once when
\* the handler returns, and the step leaves the registry and the session as
\* they were: unless a StopSession call removed it, the session is still
\* returned by GetSession.
C31_StartFailureIs500 ==
  /\ [](\A r \in Requests :
          StartFailed(r) =>
            /\ req[r].code = StatusInternalServerError
            /\ req[r].json = "transcoding failed to start"
            /\ req[r].body = 0
            /\ req[r].sent = <<>>
            /\ readers[req[r].reader].closes = (IF req[r].pc = "done" THEN 1 ELSE 0)
            /\ (\A q \in Stoppers : stop[q].id # req[r].id) =>
                 GetSession(req[r].id) = req[r].ptr)
  /\ [][\A r \in Requests :
          (req[r].pc = "start" /\ req'[r].pc # "start") =>
            (sessions' = sessions /\ sess' = sess)]_vars

\* The start of a remuxer has failed and the handler has returned 500 to a
\* connected client; the session is still registered.
C31_Witness ==
  \E r \in Requests :
    /\ StartFailed(r)
    /\ req[r].pc = "done"
    /\ req[r].client = "connected"
    /\ req[r].json = "transcoding failed to start"
    /\ GetSession(req[r].id) = req[r].ptr

\* C32: ListFiles creates no session and leaves the registry as it was, and
\* when it returns after the metadata arrived, with the file list or with an
\* error, the torrent it added has been dropped.
C32_ListFilesDropsTorrent ==
  /\ [][call' # call => (sessions' = sessions /\ sess' = sess)]_vars
  /\ []((call.fn = "ListFiles" /\ call.pc = "done" /\ call.t # Nil) =>
          /\ torrents[call.t].closed
          /\ torrents[call.t].drops >= 1
          /\ \A ih \in InfoHashes : clTorrents[ih] # call.t
          /\ call.err = "" => call.ret = FileInfos(call.arg))

\* ListFiles has returned the one file of a torrent without video while a
\* session on another torrent is registered.
C32_Witness ==
  /\ call.fn = "ListFiles"
  /\ call.pc = "done"
  /\ call.arg = TxtMagnet
  /\ Len(call.ret) = 1
  /\ call.ret[1].index = 0
  /\ torrents[call.t].closed
  /\ sessions[1] = 1

\* C33: StopSession removes the session while it holds the registry lock
\* exclusively, releases the lock, then closes the status reader, then drops
\* the torrent; a GetSession or GetStatus lookup made once the status reader
\* was closed returns not-found, and the lock is not held by the call while
\* it closes the reader or drops the torrent.
StopStepsInOrder ==
  \A q \in Stoppers :
    /\ (\E id \in SessionIDs : sessions[id] # Nil /\ sessions'[id] = Nil /\ stop'[q].id = id
                               /\ stop[q].pc = "idle" /\ stop'[q].pc # "idle") =>
         (mu.w = <<"StopSession", q>> /\ mu.r = {} /\ mu' = mu)
    /\ stop'[q].closes > stop[q].closes =>
         /\ ~Holds(<<"StopSession", q>>)
         /\ sessions[stop[q].id] = Nil
         /\ stop[q].drops = 0
    /\ stop'[q].drops > stop[q].drops =>
         /\ ~Holds(<<"StopSession", q>>)
         /\ sessions[stop[q].id] = Nil
         /\ stop[q].closes = 1
         /\ readers[sess[stop[q].ptr].reader].closes >= 1

LookupAfterCloseNotFound ==
  LET closed(id) == \E q \in Stoppers : stop[q].id = id /\ stop[q].closes > 0
  IN /\ \A p \in StatusCallers :
          (status[p].pc = "idle" /\ status'[p].pc # "idle" /\ closed(status'[p].id)) =>
            (status'[p].result = "not found" /\ status'[p].ptr = Nil)
     /\ \A r \in Requests :
          (req[r].pc = "idle" /\ req'[r].pc # "idle" /\ closed(req'[r].id)) =>
            (req'[r].code = StatusNotFound /\ req'[r].ptr = Nil)

C33_StopOrder == [][StopStepsInOrder /\ LookupAfterCloseNotFound]_vars

\* A StopSession call has closed the reader and dropped the torrent of a
\* session, and a GetStatus and a GetSession lookup of its id came back
\* not-found while another session is still registered.
C33_Witness ==
  \E q \in Stoppers :
    /\ stop[q].pc = "done"
    /\ stop[q].result = "ok"
    /\ stop[q].closes = 1
    /\ stop[q].drops = 1
    /\ status[1].id = stop[q].id
    /\ status[1].result = "not found"
    /\ req[1].id = stop[q].id
    /\ req[1].code = StatusNotFound
    /\ \E id \in SessionIDs : sessions[id] # Nil

\* C35: no Manager operation holds the registry lock across a blocking call
\* (the wait for metadata, a reader Close, a torrent Drop, the probe process),
\* so operations blocked on one session never keep GetSession, GetStatus,
\* StartStream or StopSession on another session from completing, and no
\* interleaving deadlocks.
LockHeldOnlyInRegion ==
  /\ \A p \in Starters :
       Holds(<<"StartStream", p>>) => start[p].pc \in {"insert", "done"}
  /\ \A q \in Stoppers :
       Holds(<<"StopSession", q>>) =>
         (stop[q].pc \in {"idle", "close", "done"} /\ stop[q].closes = 0 /\ stop[q].drops = 0)
  /\ \A g \in mu.r : g[1] \in {"GetStatus", "GetSession"}
  /\ mu.w # <<>> => mu.r = {}

BlockingCallsWithoutLock ==
  LET library == clTorrents' # clTorrents \/ torrents' # torrents \/ readers' # readers
  IN /\ \A p \in Starters :
          (start'[p] # start[p] /\ library) => ~Holds(<<"StartStream", p>>)
     /\ \A q \in Stoppers :
          (stop'[q] # stop[q] /\ library) => ~Holds(<<"StopSession", q>>)
     /\ (probe' # probe /\ library) => mu' = mu

LookupsAndStopsPass ==
  /\ status[1].pc # "idle" /\ ~Holds(<<"GetStatus", 1>>)
  /\ req[1].pc # "idle" /\ ~Holds(<<"GetSession", 1>>)
  /\ \A q \in Stoppers : stop[q].pc # "idle" /\ ~Holds(<<"StopSession", q>>)

OthersComplete ==
  /\ <>[]LookupsAndStopsPass
  /\ (start[2].pc = "insert") ~> (start[2].pc = "done" /\ ~Holds(<<"StartStream", 2>>))

C35_NoLockAcrossBlockingCall ==
  /\ []LockHeldOnlyInRegion
  /\ [][BlockingCallsWithoutLock]_vars
  /\ OthersComplete

\* StartStream of session 1 waits for metadata, the probe of session 2 runs
\* and a StopSession call is before the Close of its reader, while session 2
\* was started and looked up and the other StopSession call has returned.
C35_Witness ==
  /\ start[1].pc = "waitInfo"
  /\ ~torrents[start[1].t].gotInfo
  /\ probe[2].pc = "running"
  /\ start[2].pc = "done"
  /\ start[2].ret # Nil
  /\ status[1].ptr = 2
  /\ req[1].ptr = 2
  /\ \E q \in Stoppers : stop[q].ptr = 2 /\ stop[q].pc = "close" /\ StopReleased(q)
  /\ \E q \in Stoppers : stop[q].pc = "done" /\ stop[q].result = "not found"
  /\ mu = Unlocked

\* C34: when the remuxer exits non-zero for a reason other than a client
\* disconnect, the handler returns normally: it answers with no error of its
\* own, its reader is closed once at the return, and the session stays in the
\* registry and serves later requests.
RemuxerFailed(r) == cmd[r].proc = "exited" /\ cmd[r].exit = "error"

C34_RemuxerErrorNonFatal ==
  /\ [](\A r \in Requests :
          RemuxerFailed(r) =>
            /\ req[r].pc \in {"wait", "waitCopy", "closing", "done"}
            /\ req[r].json = ""
            /\ req[r].code # StatusInternalServerError
            /\ readers[req[r].reader].closes = (IF req[r].pc = "done" THEN 1 ELSE 0)
            /\ GetSession(req[r].id) = req[r].ptr
            /\ req[r].pc = "done" => (cmd[r].waits = 1 /\ cmd[r].stdin = "done"
                                      /\ cmd[r].stdout = "done"))
  /\ [][\A r, r2 \in Requests :
          /\ (RemuxerFailed(r) /\ req'[r] # req[r]) => (sessions' = sessions /\ sess' = sess)
          /\ (RemuxerFailed(r) /\ req[r2].pc = "idle" /\ req'[r2].pc # "idle") =>
               (req'[r2].ptr = req[r].ptr /\ req'[r2].code # StatusNotFound)]_vars

\* The remuxer of request 1 exited with an error and the handler has
\* returned; request 2 on the same session was served to its end by a
\* remuxer that exited 0.
C34_Witness ==
  /\ RemuxerFailed(1)
  /\ req[1].pc = "done"
  /\ req[2].pc = "done"
  /\ req[2].ptr = req[1].ptr
  /\ cmd[2].exit = "ok"
  /\ req[2].body > 0
  /\ readers[req[2].reader].closes = 1

\* C36: Search queries every registered provider concurrently, returns only
\* when all of them have finished, and returns the multiset union of the
\* results of the providers that succeeded; a failing provider adds nothing
\* and the returned error is nil even when all fail.  SearchTV does the same
\* over the providers that implement TVSearcher and skips the others.
Count(s, x) == Cardinality({i \in DOMAIN s : s[i] = x})

RECURSIVE CountIn(_, _)
CountIn(ps, x) ==
  IF ps = {} THEN 0
  ELSE LET p == CHOOSE q \in ps : TRUE
       IN Count(ProviderResults(p), x) + CountIn(ps \ {p}, x)

Eligible == IF call.fn = "SearchTV" THEN call.arg[2] ELSE Providers
Succeeded == Eligible \ call.arg[1]
ResultValues == UNION {{ProviderResults(p)[i] : i \in DOMAIN ProviderResults(p)} : p \in Providers}

C36_SearchMergesAll ==
  /\ [](SearchRunning =>
          /\ \A p \in Providers \ Eligible : call.g[p] = "none"
          /\ call.wg = Cardinality({p \in Providers : call.g[p] \in {"running", "append"}})
          /\ call.pc = "done" =>
               /\ \A p \in Eligible : call.g[p] = "done"
               /\ call.err = "nil"
               /\ Len(call.ret) = Len(call.allResults)
               /\ \A x \in ResultValues \cup {call.ret[i] : i \in DOMAIN call.ret} :
                    Count(call.ret, x) = CountIn(Succeeded, x))
  /\ [][(SearchRunning /\ call.pc = "loop" /\ call'.i > call.i /\ call'.i \in Eligible) =>
          call'.g[call'.i] = "running"]_vars

\* The searches of three providers are under way at once.
AllProvidersRunning ==
  /\ SearchRunning
  /\ call.fn = "Search"
  /\ \A p \in 1..3 : call.g[p] = "running"

\* SearchTV has returned the results of the one TV provider that succeeded:
\* another TV provider failed and a provider without the capability was skipped.
C36_Witness ==
  /\ call.fn = "SearchTV"
  /\ call.pc = "done"
  /\ call.err = "nil"
  /\ call.arg = <<{1}, {1, 2}>>
  /\ call.ret = ProviderResults(2)
  /\ call.g[3] = "none"

\* C37: a GetStatus call never uses the status reader of a session after
\* that reader was closed or its torrent dropped: it returns not-found
\* without touching the session, or it has made all its accesses to the
\* reader and the torrent statistics before StopSession closes and drops.
UsesReaderAndTorrent(p) == status[p].pc = "sample" /\ status'[p].pc # "sample"

C37_StatusBeforeClose ==
  [][\A p \in StatusCallers :
       UsesReaderAndTorrent(p) =>
         /\ ~ReaderClosed(sess[status[p].ptr].reader)
         /\ ~torrents[sess[status[p].ptr].torrent].closed]_vars

\* The part that holds: a lookup made after the removal returns not-found and
\* the call touches nothing.
NotFoundTouchesNothing ==
  [][\A p \in StatusCallers :
       (status[p].pc = "idle" /\ status'[p].pc # "idle" /\ sessions[status'[p].id] = Nil) =>
         (status'[p].pc = "done" /\ status'[p].result = "not found"
          /\ readers' = readers /\ sess' = sess /\ torrents' = torrents)]_vars

\* C38: a probe that completes after its session was stopped has no effect
\* on the registry: the session is not inserted again, what the probe writes
\* goes to a session that GetSession no longer returns, the probe closes its
\* own reader, and once StopSession has dropped the torrent the probe
\* terminates.
Stopped(b) == \E q \in Stoppers : stop[q].ptr = b

ProbeEnded(b) == probe[b].pc \in {"failed", "done"}

C38_LateProbeHarmless ==
  /\ [](\A b \in Starters :
          /\ Stopped(b) => GetSession(sess[b].ID) = Nil
          /\ ProbeEnded(b) => readers[probe[b].reader].closes = 1
          /\ probe[b].pc = "running" => readers[probe[b].reader].closes = 0)
  /\ [][\A b \in Starters :
          (probe[b].pc \in {"start", "running"} /\ probe'[b] # probe[b]) =>
            /\ sessions' = sessions
            /\ \A s \in Starters : (s # b \/ probe'[b].pc # "done") => sess'[s] = sess[s]
            /\ \A rd \in ReaderIds : rd # ProbeReaderOf(b) => readers'[rd] = readers[rd]]_vars
  /\ \A b \in {1} :
       (Stopped(b) /\ torrents[sess[b].torrent].closed /\ probe[b].pc \in {"start", "running"})
         ~> ProbeEnded(b)

\* The session was stopped to the end and its probe has reported: the
\* duration is written to a session that GetSession no longer returns, and
\* the probe's reader is closed.
C38_Witness ==
  /\ stop[1].pc = "done"
  /\ stop[1].result = "ok"
  /\ probe[1].pc = "done"
  /\ sess[1].Duration > 0
  /\ GetSession(sess[1].ID) = Nil
  /\ readers[probe[1].reader].closes = 1
  /\ torrents[sess[1].torrent].closed

\* C39: for every remux request on a session with a positive duration and
\* every t > 0, also t beyond the probed duration, the offset the reader is
\* moved to lies within [0, file size]: the reader is never positioned past
\* the end of the file.
C39_SeekWithinFile ==
  \A r \in Requests :
    (req[r].reader # Nil /\ req[r].t > 0 /\ sess[req[r].ptr].Duration > 0) =>
      /\ 0 <= req[r].offset
      /\ req[r].offset <= sess[req[r].ptr].FileSize
      /\ readers[req[r].reader].pos <= readers[req[r].reader].length

\* The part that holds: the offset is never negative, and it lies within the
\* file whenever t is at most the duration the request saw.
SeekWithinFileUpToDuration ==
  \A r \in Requests :
    req[r].reader # Nil =>
      /\ 0 <= req[r].offset
      /\ readers[req[r].reader].pos = req[r].offset
      /\ (req[r].offset > 0 /\ req[r].t <= sess[req[r].ptr].Duration) =>
           req[r].offset <= sess[req[r].ptr].FileSize - SeekBackoff

====
